---- MODULE Spec2Model ----
(***************************************************************************)
(* Video segment processing server: the Video Orchestrator (processVideo), *)
(* the Segment Processor (processSegment), the workspace cleanup service   *)
(* and the standalone segment queue handler, as a state machine over one   *)
(* Video row, the Segment rows of its story, the temp file system and the  *)
(* object storage.                                                         *)
(*                                                                         *)
(* External collaborators (store, network, render engine, object storage)  *)
(* answer nondeterministically with every outcome the code distinguishes.  *)
(* fs.mkdirSync may throw; fs.rmSync, fs.writeFileSync and fs.copyFileSync *)
(* into an existing directory succeed.                                     *)
(***************************************************************************)
EXTENDS Integers, Sequences, FiniteSets, TLC

\* Largest number of Segment rows of the story.
MaxSegs == 2
\* Largest number of handler invocations (video handler and segment handler).
MaxMsgs == 2
\* Longest free sequence of readings fed to the progress normalizer.
MaxReadings == 4
\* Last value of the millisecond clock.
MaxClock == 1

SegIds == 1..MaxSegs

VARIABLES
  \* ---- persisted rows (store) ----
  storyId,            \* Video.storyId: TRUE when the Video is linked to a story
  nSegs,              \* number of Segment rows of the story
  sortedIndex,        \* Segment.sortedIndex, per segment id
  vStatus, vURL,      \* Video.status, Video.videoURL
  sStatus, sURL,      \* Segment.status, Segment.videoURL, per segment id
  \* ---- temp file system and object storage ----
  dirs, files, storage,
  \* ---- the processVideo run in progress ----
  pc, runs, segments, idx, processedSegments, tempDirectories,
  hasFailedSegments, localVideoFiles, dlIdx, result, scheduledCleanups,
  \* ---- the queue handler invocation in flight (video or segment handler) ----
  segPc, segMsgs,
  handler,            \* "none", "video" or "segment"
  popped,             \* "none", "valid" or "malformed": the message the pop returned
  invoked,            \* processVideo / processSegment was called for the message
  processed,          \* it returned a reference (segment handler: and the row was updated)
  archived,           \* the message was archived by this invocation
  rpcs,               \* the queue RPCs this invocation issued, in order
  response, body,     \* statusCode returned (0: not yet) and the reference it carries
  message,            \* the payload of the message the pop returned, "none" without one
  \* ---- history of the current run (observation only) ----
  terminalWrites, okSegs, psFailed, mergeCall, mergeOutcome, uploadOutcome, clipDownloadFailed,
  fallback, catchTrace, createdDirs, exitPath, lastPS, completedSetBy,
  \* ---- a service function called on its own (unit specification) ----
  unit,               \* the last call: function, inputs, calls made, value, effects
  \* ---- the progress normalizer (module globals of the render service) ----
  highestSeenPercentage, lastReportedPercent, consecutiveZeros, inNewProcess,
  readings,           \* history: the readings fed to logProgress so far
  emitted,            \* history: per reading, {} or the one value logged
  \* ---- jobs in flight at the same time (overlapping ticks, manual triggers) ----
  jobs,               \* per slot: the job, its step and the paths that step writes
  now,                \* Date.now()
  \* ---- the temp area as the periodic sweeps see it ----
  temp,               \* entry -> "absent", "inUse", "young" or "old"
  lastSweep,          \* the last sweep: which one, what it found, what it removed
  \* ---- the periodic driver of the server ----
  isProcessing,       \* let isProcessing
  processingInterval, \* let processingInterval: the timer handle, 0 for null
  activeTimers,       \* the interval timers that have not been cleared
  ticks,              \* the interval callbacks in progress, one per tick slot
  inFlight,           \* the handler invocations that have not returned
  lastControl,        \* the last of start and stop that was called: "restart" is a
                      \* start while started, "restop" a stop while stopped
  controlToggle       \* flips at every call of start or stop

dbVars == <<storyId, nSegs, sortedIndex, vStatus, vURL, sStatus, sURL>>
fsVars == <<dirs, files, storage>>
runVars == <<pc, runs, segments, idx, processedSegments, tempDirectories,
             hasFailedSegments, localVideoFiles, dlIdx, result, scheduledCleanups>>
handlerVars == <<segPc, segMsgs, handler, popped, invoked, processed, archived, rpcs,
                 response, body, message>>
histVars == <<terminalWrites, okSegs, psFailed, mergeCall, mergeOutcome, uploadOutcome,
              clipDownloadFailed, fallback, catchTrace, createdDirs, exitPath,
              lastPS, completedSetBy>>
progressVars == <<highestSeenPercentage, lastReportedPercent, consecutiveZeros,
                  inNewProcess, readings, emitted>>
sweepVars == <<temp, lastSweep>>
driverVars == <<isProcessing, processingInterval, activeTimers, ticks, inFlight,
                lastControl, controlToggle>>
jobVars == <<jobs, now, sweepVars, driverVars>>
auxVars == <<unit, progressVars, jobVars>>
vars == <<dbVars, fsVars, runVars, handlerVars, histVars, auxVars>>

-----------------------------------------------------------------------------
\* References (public URLs) and the values processVideo can end with.
NoURL == [kind |-> "null", seg |-> 0]
ClipRef(s) == [kind |-> "clip", seg |-> s]          \* videos/{storyId}/{segmentId}.mp4
FinalRef == [kind |-> "final", seg |-> 0]           \* finalized-videos/{videoId}.mp4
FallbackKey == [kind |-> "fallback", seg |-> 0]     \* finalized-videos/{videoId}_fallback.mp4
Threw == [kind |-> "threw", seg |-> 0]              \* an exception left the function
Running == [kind |-> "running", seg |-> 0]          \* the function has not returned

\* Directories under the temp root.
VideoDir == [kind |-> "video", id |-> 0]            \* processing/{videoId}
SegDir(s) == [kind |-> "segment", id |-> s]         \* processing/{segmentId}
FallbackDir == [kind |-> "fallback", id |-> 0]      \* processing/{videoId}_fallback
DownloadsDir == [kind |-> "downloads", id |-> 0]    \* downloads
ProcessingDirs == {VideoDir, FallbackDir} \cup {SegDir(s) : s \in SegIds}

\* Files: the directory and the base name.
ClipFile(s) == [dir |-> VideoDir, name |-> ClipRef(s)]       \* segment_{id}.mp4
FinalFile == [dir |-> VideoDir, name |-> FinalRef]           \* {videoId}.mp4
FallbackFile == [dir |-> FallbackDir, name |-> FallbackKey]  \* segment_fallback.mp4

\* fs.rmSync(directory, {recursive, force}) over a list of directories.
RmDirs(ds, rm) == ds \ rm
RmFiles(fs, rm) == {f \in fs : f.dir \notin rm}

Range(q) == {q[i] : i \in 1..Len(q)}


-----------------------------------------------------------------------------
\* downloadFile(url, filePath) as its callers see it: it creates the downloads
\* directory, fetches, stages, and copies the staged file to filePath; any throw
\* (the fetch, or the copy into a missing directory) is caught and answered with
\* false. Only the files under the processing root are kept in files.
DownloadDirs(ds) == ds \cup {DownloadsDir}
DownloadOk(netOk, dest, ds) == netOk /\ dest.dir \in ds
DownloadFiles(netOk, dest, ds, fs) ==
  IF DownloadOk(netOk, dest, ds) THEN fs \cup {dest} ELSE fs

\* Variant of the cleanup that removes nothing (the finally block left out).
CleanupTempDirsSkipped(ds, directories) == ds

\* cleanupTempFiles(directories): removes every listed directory that exists.
CleanupTempDirs(ds, directories) == RmDirs(ds, Range(directories))
CleanupTempFilesOf(fs, directories) == RmFiles(fs, Range(directories))

\* cleanupVideoFiles(videoId): the directories it collects. lookup is the outcome of
\* its store reads: "ok", "error" (no row data returned) or "throws" (caught by its
\* own handler before anything is removed).
LookupOutcomes == {"ok", "error", "throws"}
CleanupVideoTargets(lookup, ds) ==
  IF lookup = "throws" THEN {}
  ELSE ({VideoDir} \cap ds)
       \cup (IF lookup = "ok" /\ storyId /\ nSegs > 0
             THEN ({SegDir(s) : s \in 1..nSegs} \cup {DownloadsDir}) \cap ds
             ELSE {})

\* The directories a scheduled or running cleanupVideoFiles(videoId) call names.
CleanupVideoScope == {VideoDir, DownloadsDir} \cup {SegDir(s) : s \in 1..nSegs}

-----------------------------------------------------------------------------
\* processSegment(segmentId). fault is the step that fails, "none" when none does.
\* "fetch": the Segment row cannot be read; "invalidUrl": imageURL or audioURL is
\* missing or fails isValidUrl (the rows are written upstream, so each call may read
\* either kind of row); "mkdir": fs.mkdirSync of the workspace throws.
PSFaults == {"none", "fetch", "invalidUrl", "mkdir", "download", "probe", "render", "upload"}

\* mkdirSync(..., {recursive: true}) of a directory that exists does not throw.
PSFaultsAt(s, ds) == IF SegDir(s) \in ds THEN PSFaults \ {"mkdir"} ELSE PSFaults

\* The row was read and both URLs passed isValidUrl.
PSReached(s, fault) == fault \notin {"fetch", "invalidUrl"}

\* The workspace was created and the inner try block entered.
PSWorkspace(s, fault) == PSReached(s, fault) /\ fault # "mkdir"

PSReturn(s, fault) == IF fault = "none" THEN ClipRef(s) ELSE NoURL

\* Variant of the finally block that removes the workspace only after a success.
PSFinallyOnSuccess(ds, s, fault) == IF fault = "none" THEN RmDirs(ds, {SegDir(s)}) ELSE ds

\* The finally block: fs.rmSync(segmentTempDir, {recursive, force}).
PSFinallyDirs(ds, s, fault) == RmDirs(ds, {SegDir(s)})

PSDirs(s, fault, ds) ==
  IF PSWorkspace(s, fault)
  THEN PSFinallyDirs(ds \cup {SegDir(s), DownloadsDir}, s, fault)
  ELSE ds

\* Every file it writes under the processing root lies in its workspace, which the
\* finally block removes with its contents.
PSFiles(s, fault, fs) == IF PSWorkspace(s, fault) THEN RmFiles(fs, {SegDir(s)}) ELSE fs

PSStorage(s, fault, st) == IF PSReturn(s, fault) # NoURL THEN st \cup {ClipRef(s)} ELSE st

-----------------------------------------------------------------------------
\* The Segment query of processVideo: .order("sortedIndex", {ascending: true}).
OrderedSegments ==
  SortSeq([i \in 1..nSegs |-> i], LAMBDA a, b : sortedIndex[a] < sortedIndex[b])

\* Variant of the sort with the comparator reversed (b.sortedIndex - a.sortedIndex).
SortProcessedDescending(ps) == SortSeq(ps, LAMBDA a, b : a.sortedIndex > b.sortedIndex)

\* processedSegments.sort((a, b) => a.sortedIndex - b.sortedIndex)
SortProcessed(ps) == SortSeq(ps, LAMBDA a, b : a.sortedIndex < b.sortedIndex)

\* mergeVideosWithTransition: the inputs in the order given and, for two or more
\* inputs, the labels of the two concat filters; one input is a stream copy.
MergeGraph(videoFiles) ==
  LET n == Len(videoFiles) IN
  IF n = 1
  THEN [mode |-> "copy", inputs |-> videoFiles, videoLabels |-> <<>>, audioLabels |-> <<>>]
  ELSE [mode |-> "concat", inputs |-> videoFiles,
        videoLabels |-> [i \in 1..n |-> i - 1],
        audioLabels |-> [i \in 1..n |-> i - 1]]

\* The render engine can run the merge: every input is on disk and the output can be
\* copied into the directory of outputPath.
MergeRunnable(videoFiles, ds, fs) == Range(videoFiles) \subseteq fs /\ VideoDir \in ds

\* The clips of the output, in order, as one stream of the graph lists them.
OutputClips(g, labels) ==
  IF g.mode = "copy" THEN g.inputs
  ELSE [i \in 1..Len(labels) |-> g.inputs[labels[i] + 1]]

-----------------------------------------------------------------------------
\* updateVideoStatus(videoId, status, videoURL?): a rejected update is logged only.
\* terminalWrites counts the terminal statuses the current run has persisted.
UpdatedStatus(old, status, accepted) == IF accepted THEN status ELSE old
\* Variant of the update that never carries videoURL.
UpdatedURLDropped(old, url, accepted) == old

UpdatedURL(old, url, accepted) == IF accepted /\ url # NoURL THEN url ELSE old

UpdateVideoStatus(status, url, accepted) ==
  /\ vStatus' = UpdatedStatus(vStatus, status, accepted)
  /\ vURL' = UpdatedURL(vURL, url, accepted)
  /\ terminalWrites' = IF accepted /\ status \in {"completed", "failed"}
                       THEN terminalWrites + 1 ELSE terminalWrites

\* Variant of the top-level catch that lets a failed status update escape.
CatchRethrow(accepted) == IF accepted THEN NoURL ELSE Threw

\* What the top-level catch of processVideo ends with.
CatchReturn(accepted) == NoURL

Return(val, path) == result' = val /\ pc' = "done" /\ exitPath' = path

\* lastPS: the processSegment call that has returned and whose caller has not yet
\* acted on the value: the segment, whether the workspace was reached, the value.
NoPS == [called |-> FALSE, seg |-> 0, reached |-> FALSE, ret |-> NoURL]

-----------------------------------------------------------------------------
\* The queue handlers. An RPC of the queue client answers "ok", answers with an error
\* object ("error": nothing was done, and for archive the answer is not inspected),
\* or throws ("throws": nothing was done).
RpcOutcomes == {"ok", "error", "throws"}

\* Variant in which an archive RPC that throws has archived the message first.
ArchiveEffectBeforeThrow(outcome) == outcome \in {"ok", "throws"}

\* rpc("archive", {queue_name, msg_id}) took effect.
ArchiveEffect(outcome) == outcome = "ok"

\* What the pop of a handler invocation can give: a message carrying the handler's
\* identifier, a message that is not an object or lacks it, no message, an error
\* object, or a throw.
PopOutcomes == {"valid", "malformed", "empty", "error", "throws"}

\* The payloads on the queue config.queue.name, which both handlers pop from: a
\* message carrying a videoId, one carrying a segmentId, one carrying neither.
Messages == {"videoId", "segmentId", "other"}

\* The validation of the popped message: the video handler requires
\* q.message.videoId, the segment handler q.message.segmentId.
Validate(h, msg) ==
  IF (h = "video" /\ msg = "videoId") \/ (h = "segment" /\ msg = "segmentId")
  THEN "valid" ELSE "malformed"

\* What a pop gives the handler h: delivery is "message" when the queue returned msg.
Popped(h, delivery, msg) == IF delivery = "message" THEN Validate(h, msg) ELSE delivery

\* Variant in which the malformed-message branch answers 400 without archiving.
NoDispatchWithoutArchive(pop, a) ==
  IF pop = "empty"
  THEN [response |-> 200, archived |-> FALSE, rpcs |-> <<"pop">>]
  ELSE IF pop \in {"error", "throws"}
  THEN [response |-> 500, archived |-> FALSE, rpcs |-> <<"pop">>]
  ELSE [response |-> 400, archived |-> FALSE, rpcs |-> <<"pop">>]

\* The invocation ends without calling the processor. pop \in PopOutcomes \ {"valid"};
\* a is the outcome of the archive RPC of the malformed-message branch.
NoDispatchOutcome(pop, a) ==
  IF pop = "empty"
  THEN [response |-> 200, archived |-> FALSE, rpcs |-> <<"pop">>]
  ELSE IF pop \in {"error", "throws"}
  THEN [response |-> 500, archived |-> FALSE, rpcs |-> <<"pop">>]
  ELSE IF a = "throws"
  THEN [response |-> 500, archived |-> ArchiveEffect(a), rpcs |-> <<"pop", "archive">>]
  ELSE [response |-> 400, archived |-> ArchiveEffect(a), rpcs |-> <<"pop", "archive">>]

\* Variant in which the catch block answers 422 without archiving.
DispatchWithoutArchiveOnFailure(succeeded, a1, a2) ==
  IF succeeded /\ a1 # "throws"
  THEN [response |-> 200, archived |-> ArchiveEffect(a1), rpcs |-> <<"pop", "archive">>]
  ELSE [response |-> 422, archived |-> succeeded /\ ArchiveEffect(a1),
        rpcs |-> IF succeeded THEN <<"pop", "archive">> ELSE <<"pop">>]

\* Variant in which a throw of the catch block's archive RPC leaves the handler: no
\* response is returned.
DispatchUncaught(succeeded, a1, a2) ==
  IF succeeded /\ a1 # "throws"
  THEN [response |-> 200, archived |-> ArchiveEffect(a1), rpcs |-> <<"pop", "archive">>]
  ELSE [response |-> IF a2 = "throws" THEN 0 ELSE 422,
        archived |-> (succeeded /\ ArchiveEffect(a1)) \/ ArchiveEffect(a2),
        rpcs |-> IF succeeded THEN <<"pop", "archive", "archive">>
                 ELSE <<"pop", "archive">>]

\* The inner try/catch after the processor returned. succeeded: the processor returned
\* a reference (and, in the segment handler, the Segment update returned the row);
\* a1: the archive RPC of the try block; a2: the archive RPC of the catch block.
DispatchOutcome(succeeded, a1, a2) ==
  IF succeeded /\ a1 # "throws"
  THEN [response |-> 200, archived |-> ArchiveEffect(a1), rpcs |-> <<"pop", "archive">>]
  ELSE LET before == IF succeeded THEN <<"pop", "archive">> ELSE <<"pop">>
           sofar == succeeded /\ ArchiveEffect(a1)
       IN
       IF a2 = "throws"
       THEN [response |-> 500, archived |-> sofar \/ ArchiveEffect(a2),
             rpcs |-> Append(before, "archive")]
       ELSE [response |-> 422, archived |-> sofar \/ ArchiveEffect(a2),
             rpcs |-> Append(before, "archive")]

-----------------------------------------------------------------------------
\* Service functions called on their own.

\* An asset URL as processSegment distinguishes it: absent (null or empty), and the
\* protocol new URL() parses out of it ("" when the string has no scheme and the
\* constructor throws).
Protocols == {"", "ftp:", "http:", "https:"}
MissingUrl == [present |-> FALSE, protocol |-> ""]
Urls == {MissingUrl} \cup {[present |-> TRUE, protocol |-> p] : p \in Protocols}

\* new URL(urlString) returns instead of throwing.
UrlParses(u) == u.present /\ u.protocol # ""

\* Variant of isValidUrl that accepts whatever new URL() parses.
IsValidUrlAnyScheme(u) == UrlParses(u)

IsValidUrl(u) == UrlParses(u) /\ u.protocol \in {"http:", "https:"}

\* Both checks of processSegment on the row it read.
UrlsAccepted(image, audio) ==
  /\ image.present /\ audio.present
  /\ IsValidUrl(image) /\ IsValidUrl(audio)

\* The step of processSegment that fails, given the row and the fault of its
\* collaborators: the URL checks come after the read and before everything else.
PSEffectiveFault(image, audio, fault) ==
  IF fault = "fetch" THEN "fetch"
  ELSE IF ~UrlsAccepted(image, audio) THEN "invalidUrl"
  ELSE fault

\* The arguments processSegment passes to createVideo.
PSCreateVideoArgs == <<"imagePath", "audioPath", "videoPath", "duration">>

\* The calls processSegment makes, in order.
PSCalls(image, audio, fault) ==
  LET eff == PSEffectiveFault(image, audio, fault)
      inner == <<"mkdirSync:downloads", "downloadFile:image", "downloadFile:audio",
                 "getAudioDuration", "createVideo", "uploadFile">>
      cut == CASE eff = "download" -> 3
               [] eff = "probe" -> 4
               [] eff = "render" -> 5
               [] OTHER -> 6
  IN IF eff \in {"fetch", "invalidUrl"} THEN <<"select:Segment">>
     ELSE IF eff = "mkdir" THEN <<"select:Segment", "mkdirSync:workspace">>
     ELSE <<"select:Segment", "mkdirSync:workspace">> \o SubSeq(inner, 1, cut)
          \o <<"rmSync:workspace">>

\* The directories a processSegment call creates (the workspace is removed again).
PSMade(s, image, audio, fault, ds) ==
  LET eff == PSEffectiveFault(image, audio, fault) IN
  IF PSWorkspace(s, eff) THEN {SegDir(s), DownloadsDir} \ ds ELSE {}

\* The input lists of a merge: up to MaxSegs clip files, in any order.
MergeInputs == UNION {[1..n -> {ClipFile(s) : s \in SegIds}] : n \in 0..MaxSegs}

\* Variant of the merge without the test of the input list.
MergeRejectsNothing(videoFiles) == FALSE

\* if (videoFiles.length === 0) throw, the first statement of the merge.
MergeRejects(videoFiles) == Len(videoFiles) = 0

\* The file-system and render-engine calls of a merge, in order; engineOk: the render
\* engine ran to its end.
MergeCalls(videoFiles, engineOk) ==
  IF MergeRejects(videoFiles) THEN <<>>
  ELSE <<"mkdirSync:processing", "mkdirSync:logs", "createWriteStream:log", "ffmpeg">>
       \o (IF engineOk THEN <<"copyFileSync:output">> ELSE <<>>)

\* downloadFile(url, filePath) step by step. The url is a string; fetch is the
\* global fetch of the runtime, which the function calls on whatever it is given.
DFUrls == {[present |-> TRUE, protocol |-> p] : p \in Protocols \cup {"data:"}}

\* What fetch(url) does with the url: an http(s) url is requested over the network,
\* a data: url is answered locally with an ok response, anything else (no scheme,
\* an unsupported scheme) rejects with a TypeError.
DFFetch(u) ==
  IF ~UrlParses(u) THEN "throws"
  ELSE IF u.protocol \in {"http:", "https:"} THEN "network"
  ELSE IF u.protocol = "data:" THEN "local"
  ELSE "throws"

\* The faults of the collaborators: mkdirSync, the request, the status of the
\* response, arrayBuffer(), writeFileSync, copyFileSync.
DFFaults == {"none", "mkdir", "network", "non2xx", "body", "write", "copy"}

\* The statement of the body that throws, in the order of the body.
DFEffectiveFault(u, fault, destDirExists) ==
  IF fault = "mkdir" THEN "mkdir"
  ELSE IF DFFetch(u) = "throws" THEN "scheme"
  ELSE IF DFFetch(u) = "network" /\ fault \in {"network", "non2xx"} THEN fault
  ELSE IF fault = "body" THEN "body"
  ELSE IF fault = "write" THEN "write"
  ELSE IF fault = "copy" \/ ~destDirExists THEN "copy"
  ELSE "none"

\* Variant of the body that writes the response to filePath directly.
DFCallsUnstaged(eff) ==
  LET stmts == <<"mkdirSync:downloads", "fetch", "arrayBuffer", "writeFileSync:destination">>
      cut == CASE eff = "mkdir" -> 1
               [] eff \in {"scheme", "network", "non2xx"} -> 2
               [] eff = "body" -> 3
               [] OTHER -> 4
  IN SubSeq(stmts, 1, cut)

\* The calls of the body up to and including the one that throws. downloadPath is
\* downloads/{Date.now()}_{basename(filePath)}, never filePath itself, so the copy
\* is never skipped.
DFCalls(eff) ==
  LET stmts == <<"mkdirSync:downloads", "fetch", "arrayBuffer", "writeFileSync:staging",
                "copyFileSync:destination">>
      cut == CASE eff = "mkdir" -> 1
               [] eff \in {"scheme", "network", "non2xx"} -> 2
               [] eff = "body" -> 3
               [] eff = "write" -> 4
               [] OTHER -> 5
  IN SubSeq(stmts, 1, cut)

\* What the call leaves written: a write or a copy that throws may leave a part.
DFWrote(eff, partial, destDirExists) ==
  CASE eff = "none" -> {"staging", "destination"}
    [] eff = "copy" -> {"staging"} \cup (IF partial /\ destDirExists
                                          THEN {"destination:partial"} ELSE {})
    [] eff = "write" -> IF partial THEN {"staging:partial"} ELSE {}
    [] OTHER -> {}

\* Variant in which the try block begins after the directory and the fetch.
DFCatchesWritesOnly(eff) == eff \in {"write", "copy"}

\* try { ...the whole body... } catch (error) { return false }.
DFCatches(eff) == TRUE

True == [kind |-> "true", seg |-> 0]
False == [kind |-> "false", seg |-> 0]
DFReturn(eff) ==
  IF eff = "none" THEN True ELSE IF DFCatches(eff) THEN False ELSE Threw

NoUnit == [fn |-> "none", seg |-> 0, image |-> MissingUrl, audio |-> MissingUrl,
           inputs |-> <<>>, calls |-> <<>>, ret |-> NoURL, threw |-> FALSE,
           made |-> {}, wrote |-> {}, fault |-> "none"]

-----------------------------------------------------------------------------
\* The progress normalizer logProgress(percent) of the render service.

\* The readings the render engine reports, among them values outside 0..100.
Readings == {-3, 0, 1, 5, 10, 50, 90, 98, 99, 100, 120}

\* The sequence of readings of the specification's example.
SpecReadings == <<0, 0, 0, 50, 90, 0, 0, 5, 100>>

\* Math.min(Math.max(Math.floor(percent || 0), 0), 100) on an integer reading.
ValidPercent(percent) ==
  IF percent < 0 THEN 0 ELSE IF percent > 100 THEN 100 ELSE percent

\* consecutiveZeros >= 2 && lastReportedPercent >= 99: a new process is starting.
PhaseReset(zeros, last) == zeros >= 2 /\ last >= 99

\* Variant that drops every zero outside a new process.
SuppressZeroAlways(inNew, highest) == ~inNew

\* !inNewProcess && highestSeenPercentage > 50: the zero is not displayed.
SuppressZero(inNew, highest) == ~inNew /\ highest > 50

Distance(a, b) == IF a >= b THEN a - b ELSE b - a

\* Variant that reports every value.
InsignificantNever(valid, last) == FALSE

\* Math.abs(validPercent - lastReportedPercent) < 2 && validPercent !== 0 &&
\* validPercent !== 100: the value is not reported.
Insignificant(valid, last) == Distance(valid, last) < 2 /\ valid # 0 /\ valid # 100

\* Variant without the test for backward progress.
RegressedNever(inNew, valid, highest) == FALSE

\* !inNewProcess && validPercent < highestSeenPercentage - 5 &&
\* highestSeenPercentage > 10: the last reported value is used instead.
Regressed(inNew, valid, highest) == ~inNew /\ valid < highest - 5 /\ highest > 10

\* One call of logProgress on the globals st: the globals after it and what it logged.
LogProgressResult(st, percent) ==
  LET valid0 == ValidPercent(percent)
      zeros1 == IF valid0 = 0 THEN st.zeros + 1 ELSE 0
      reset  == valid0 = 0 /\ PhaseReset(zeros1, st.last)
      high1  == IF reset THEN 0 ELSE st.highest
      new1   == IF valid0 = 0 THEN (reset \/ st.inNew) ELSE FALSE
      dropped == valid0 = 0 /\ ~reset /\ SuppressZero(st.inNew, st.highest)
      valid1 == IF Regressed(new1, valid0, high1) THEN st.last ELSE valid0
      high2  == IF valid1 > high1 THEN valid1 ELSE high1
      quiet  == Insignificant(valid1, st.last)
  IN IF dropped
     THEN [highest |-> st.highest, last |-> st.last, zeros |-> zeros1,
           inNew |-> st.inNew, out |-> {}]
     ELSE IF quiet
     THEN [highest |-> high2, last |-> st.last, zeros |-> zeros1,
           inNew |-> new1, out |-> {}]
     ELSE [highest |-> high2, last |-> valid1, zeros |-> zeros1,
           inNew |-> new1, out |-> {valid1}]

\* p is an initial part of q.
IsPrefix(p, q) == Len(p) <= Len(q) /\ SubSeq(q, 1, Len(p)) = p

-----------------------------------------------------------------------------
\* Jobs in flight at the same time. A tick of the periodic driver is an async
\* callback of setInterval and a manual trigger is a route handler: neither waits
\* for an invocation that is awaiting, so two handler invocations can be in flight.
Slots == {1, 2}

\* A job is named by what it processes: a Segment or the Video.
SegmentJobs == {<<"segment", s>> : s \in SegIds}
VideoJob == <<"video", 1>>
NoOwner == <<"none", 0>>

\* A path under the temp root: its area, the per-job directory below it if any, the
\* file name and the Date.now() value in the name if any.
Staged(t, name) == [area |-> "downloads", owner |-> NoOwner, name |-> name, stamp |-> t]
InWorkspace(id, name) == [area |-> "processing", owner |-> id, name |-> name, stamp |-> 0]
LogFile(prefix, t) == [area |-> "logs", owner |-> NoOwner, name |-> prefix, stamp |-> t]

\* path.join(processingDir, path.basename(outputPath)): the render engine's
\* intermediate output of createVideo and of mergeVideosWithTransition.
TempOutputPath(outputPath) ==
  [area |-> "processing", owner |-> NoOwner, name |-> outputPath.name, stamp |-> 0]

\* The output path each job passes to the render: segmentTempDir/output.mp4 and
\* finalVideoDir/<videoId>.mp4.
OutputPath(id) ==
  IF id = VideoJob THEN InWorkspace(id, <<"videoId.mp4", id[2]>>)
  ELSE InWorkspace(id, <<"output.mp4", 0>>)

\* The files a job downloads into its directory, in order.
Downloads(id, n) ==
  IF id = VideoJob THEN [i \in 1..n |-> <<"segment_id.mp4", i>>]
  ELSE <<<<"image.jpg", 0>>, <<"audio.mp3", 0>>>>

\* The steps of a job and the paths each step writes at clock value t.
JobSteps == {"stage", "copy", "render", "copyOutput"}

JobWrites(id, step, file, n, t) ==
  CASE step = "stage" -> {Staged(t, Downloads(id, n)[file])}
    [] step = "copy" -> {InWorkspace(id, Downloads(id, n)[file])}
    [] step = "render" ->
         {LogFile(IF id = VideoJob THEN <<"ffmpeg-merge", 0>> ELSE <<"ffmpeg", 0>>, t),
          TempOutputPath(OutputPath(id))}
    [] step = "copyOutput" -> {OutputPath(id)}
    [] OTHER -> {}

\* The step after a step: downloads one by one, then the render, then the copy of
\* the intermediate output to the output path.
NextStep(id, step, file, n) ==
  CASE step = "stage" -> [step |-> "copy", file |-> file]
    [] step = "copy" ->
         IF file < Len(Downloads(id, n)) THEN [step |-> "stage", file |-> file + 1]
         ELSE [step |-> "render", file |-> file]
    [] OTHER -> [step |-> "copyOutput", file |-> file]

\* The entries of the temp area a sweep can meet: a per-job directory under the
\* processing root, a file directly under the processing root (the intermediate
\* output of a render) and a staged file under the downloads root.
WorkspaceEntry == [root |-> "processing", type |-> "dir"]
IntermediateEntry == [root |-> "processing", type |-> "file"]
StagedEntry == [root |-> "downloads", type |-> "file"]
TempEntries == {WorkspaceEntry, IntermediateEntry, StagedEntry}

\* now - stats.mtimeMs > MAX_AGE_MS: the entry is older than 24 hours.
OlderThanMaxAge(status) == status = "old"

Present(tmp) == {e \in TempEntries : tmp[e] # "absent"}

\* cleanupOrphanedTempDirectories(): under the processing root the old directories,
\* under the downloads root every old item.
OrphansRemoved(tmp) ==
  {e \in Present(tmp) :
     /\ OlderThanMaxAge(tmp[e])
     /\ (e.root = "processing" => e.type = "dir")}

\* The interval callback of the server: cleanupTempFiles on the downloads root and
\* on the processing root, which removes both with everything below them.
RootsRemoved(tmp) == Present(tmp)

\* The orders in which one orphan sweep meets the entries: readdirSync of the
\* processing root first, in whichever order it lists, then of the downloads root.
SweepOrders(tmp) ==
  LET proc == {e \in Present(tmp) : e.root = "processing"}
      down == IF StagedEntry \in Present(tmp) THEN <<StagedEntry>> ELSE <<>>
      procOrders == {q \in UNION {[1..n -> proc] : n \in 0..2} :
                       /\ Len(q) = Cardinality(proc)
                       /\ Range(q) = proc}
  IN {q \o down : q \in procOrders}

\* The items the loops reach when statSync or rmSync throws at item failAt (0: no
\* call throws): the throw leaves both loops for the one catch at the end.
SweepExamined(order, failAt) ==
  IF failAt = 0 THEN Range(order) ELSE {order[i] : i \in 1..failAt}

\* What the sweep removed of what it was to remove: the items it reached, without
\* the item at which a call threw.
SweepRemoved(order, failAt, toRemove) ==
  (SweepExamined(order, failAt) \ (IF failAt = 0 THEN {} ELSE {order[failAt]}))
  \cap toRemove

NoSweep == [by |-> "none", before |-> [e \in TempEntries |-> "absent"], removed |-> {},
            examined |-> {}, failed |-> {}, threw |-> FALSE]

\* The periodic driver. workerCount is config.processing.workerCount; setInterval
\* returns a handle that no timer still active has.
WorkerCount == 2
MaxTimers == 2
TimerIds == 1..MaxTimers
TickSlots == {1, 2}
Handlers == {"video", "segment"}

\* A handler invocation: by is the tick slot that called it, 0 for a manual trigger.
Invocation(by, h) == [by |-> by, handler |-> h]

\* What a handler invocation gives its caller. Both handlers wrap their whole body
\* in try/catch and answer every failure with a status code: "error" is an answer
\* other than 200.
PassOutcomesUncaught == {"ok", "error", "throws"}

PassOutcomes == {"ok", "error"}

\* got: what the awaited invocation gave, "pending" while it has not returned.
\* errors: an invocation of this callback answered with an error or threw.
NoTick == [pc |-> "none", i |-> 0, trace |-> <<>>, got |-> "pending", errors |-> FALSE]

Call(i, h) == [slot |-> i, handler |-> h, ev |-> "call"]
Resume(i, h) == [slot |-> i, handler |-> h, ev |-> "resume"]

\* Variant of the loop body without await: the callback goes on at once.
TickMayResumeAtOnce(tk) == TRUE

\* await processVideoHandler() / await processSegmentHandler(): the callback goes
\* on when the invocation it awaits has returned.
TickMayResume(tk) == tk.got # "pending"

\* Variant of start that installs a timer without clearing the one it has.
ClearedOnStartNever(handle, timers) == timers

\* if (processingInterval) clearInterval(processingInterval).
ClearedOnStart(handle, timers) == timers \ {handle}

\* i++ and the loop test after slot i: the next slot calls the video handler, or
\* the callback returns.
NextSlot(tk) ==
  IF tk.i < WorkerCount
  THEN [pc |-> "awaitVideo", i |-> tk.i + 1,
        trace |-> Append(tk.trace, Call(tk.i + 1, "video")), got |-> "pending",
        errors |-> tk.errors]
  ELSE [pc |-> "returned", i |-> tk.i, trace |-> tk.trace, got |-> "pending",
        errors |-> tk.errors]

\* The callback after the invocation it awaited: after the video pass the segment
\* pass of the same slot, unless the video pass threw into the catch of the loop
\* body; after the segment pass, or after the catch, the next slot.
TickAfter(tk) ==
  LET seen == [tk EXCEPT !.trace = Append(tk.trace,
                 Resume(tk.i, IF tk.pc = "awaitVideo" THEN "video" ELSE "segment")),
                          !.errors = tk.errors \/ tk.got \in {"error", "throws"}]
  IN IF tk.pc = "awaitVideo" /\ tk.got # "throws"
     THEN [pc |-> "awaitSegment", i |-> tk.i,
           trace |-> Append(seen.trace, Call(tk.i, "segment")), got |-> "pending",
           errors |-> seen.errors]
     ELSE NextSlot(seen)

\* The handler a callback is awaiting.
Awaited(tk) == IF tk.pc = "awaitVideo" THEN "video" ELSE "segment"

\* hit: a cleanupVideoFiles call removed a directory the job is using.
NoJob == [id |-> NoOwner, via |-> "none", step |-> "none", file |-> 0, n |-> 0,
          writing |-> {}, hit |-> FALSE]

\* The directory a job works in: processing/<videoId> or processing/<segmentId>.
WorkspaceDir(id) == IF id = VideoJob THEN VideoDir ELSE SegDir(id[2])

\* The directories a job in flight is using at its step: its workspace and, while a
\* download is staged and not yet copied, the downloads directory.
JobDirs(j) ==
  {WorkspaceDir(j.id)} \cup (IF j.step \in {"stage", "copy"} THEN {DownloadsDir} ELSE {})

\* The directories that exist because a job in flight made them.
ExistingJobDirs(js) ==
  UNION {{WorkspaceDir(js[k].id), DownloadsDir} : k \in {x \in Slots : js[x] # NoJob}}


Init ==
  /\ storyId \in BOOLEAN
  /\ nSegs \in 0..MaxSegs
  /\ ~storyId => nSegs = 0
  /\ sortedIndex = [s \in SegIds |-> MaxSegs - s]
  /\ vStatus = "pending" /\ vURL = NoURL
  /\ sStatus = [s \in SegIds |-> "pending"]
  /\ sURL = [s \in SegIds |-> NoURL]
  /\ dirs = {} /\ files = {} /\ storage = {}
  /\ pc = "idle" /\ runs = 0
  /\ segments = <<>> /\ idx = 1 /\ processedSegments = <<>>
  /\ tempDirectories = <<>> /\ hasFailedSegments = FALSE
  /\ localVideoFiles = <<>> /\ dlIdx = 1 /\ result = Running
  /\ scheduledCleanups = 0
  /\ segPc = "idle" /\ segMsgs = 0
  /\ handler = "none" /\ popped = "none" /\ invoked = FALSE /\ archived = FALSE
  /\ processed = FALSE
  /\ rpcs = <<>> /\ response = 0 /\ body = NoURL /\ message = "none"
  /\ terminalWrites = 0 /\ okSegs = {} /\ psFailed = FALSE
  /\ mergeCall = <<>> /\ mergeOutcome = "none" /\ uploadOutcome = "none"
  /\ clipDownloadFailed = FALSE /\ fallback = "none" /\ catchTrace = <<>>
  /\ createdDirs = {} /\ exitPath = "none" /\ lastPS = NoPS
  /\ completedSetBy = {}
  /\ unit = NoUnit
  /\ highestSeenPercentage = 0 /\ lastReportedPercent = 0
  /\ consecutiveZeros = 0 /\ inNewProcess = FALSE
  /\ readings = <<>> /\ emitted = <<>>
  /\ jobs = [k \in Slots |-> NoJob] /\ now = 0
  /\ temp = [e \in TempEntries |-> "absent"] /\ lastSweep = NoSweep
  /\ isProcessing = FALSE /\ processingInterval = 0 /\ activeTimers = {}
  /\ ticks = [k \in TickSlots |-> NoTick] /\ inFlight = {}
  /\ lastControl = "none" /\ controlToggle = FALSE

\* processVideo(videoId) is entered for a queue message.
StartRun ==
  /\ pc = "idle" /\ segPc = "idle" /\ handler = "none"
  /\ runs + segMsgs < MaxMsgs
  /\ runs' = runs + 1
  /\ pc' = "fetchVideo"
  /\ handler' = "video" /\ popped' = Validate("video", "videoId") /\ invoked' = TRUE
  /\ message' = "videoId"
  /\ rpcs' = <<"pop">>
  /\ UNCHANGED <<dbVars, fsVars, segPc, segMsgs, processed, archived, response, body,
                 scheduledCleanups, segments, idx, result, lastPS,
                 processedSegments, tempDirectories, hasFailedSegments,
                 localVideoFiles, dlIdx, terminalWrites, okSegs, psFailed, mergeCall,
                 mergeOutcome, uploadOutcome, clipDownloadFailed, fallback,
                 catchTrace, createdDirs, exitPath, completedSetBy>>
  /\ UNCHANGED auxVars

\* processVideo has returned to the video handler: its locals are gone; the handler
\* archives the message and builds its response.
FinishRun ==
  /\ pc = "done"
  /\ pc' = "idle"
  /\ \E a1 \in RpcOutcomes, a2 \in RpcOutcomes :
       LET out == DispatchOutcome(result # NoURL, a1, a2) IN
       /\ processed' = (result # NoURL)
       /\ response' = out.response
       /\ archived' = out.archived
       /\ rpcs' = out.rpcs
       /\ body' = IF out.response = 200 THEN result ELSE NoURL
  /\ segments' = <<>> /\ idx' = 1 /\ processedSegments' = <<>>
  /\ tempDirectories' = <<>> /\ hasFailedSegments' = FALSE
  /\ localVideoFiles' = <<>> /\ dlIdx' = 1
  /\ terminalWrites' = 0 /\ okSegs' = {} /\ psFailed' = FALSE
  /\ mergeCall' = <<>> /\ mergeOutcome' = "none" /\ uploadOutcome' = "none"
  /\ clipDownloadFailed' = FALSE /\ fallback' = "none" /\ catchTrace' = <<>>
  /\ createdDirs' = {} /\ exitPath' = "none" /\ lastPS' = NoPS
  /\ result' = Running
  /\ UNCHANGED <<dbVars, fsVars, segPc, segMsgs, handler, popped, invoked, message,
                 scheduledCleanups, runs, completedSetBy>>
  /\ UNCHANGED auxVars

\* Step 1: read the Video row; no row or no story marks the Video failed.
FetchVideo ==
  /\ pc = "fetchVideo"
  /\ \E out \in {"ok", "error", "throws"}, acc \in BOOLEAN :
       IF out = "throws"
       THEN /\ pc' = "catch"
            /\ UNCHANGED <<vStatus, vURL, terminalWrites, result, exitPath>>
       ELSE IF out = "error" \/ ~storyId
       THEN /\ UpdateVideoStatus("failed", NoURL, acc)
            /\ Return(NoURL, IF out = "error" THEN "noVideo" ELSE "noStory")
       ELSE /\ pc' = "markPending"
            /\ UNCHANGED <<vStatus, vURL, terminalWrites, result, exitPath>>
  /\ UNCHANGED <<storyId, nSegs, sortedIndex, sStatus, sURL, fsVars,
                 runs, segments, idx, processedSegments, tempDirectories,
                 hasFailedSegments, localVideoFiles, dlIdx, scheduledCleanups,
                 handlerVars, okSegs, psFailed, mergeCall, mergeOutcome, uploadOutcome,
                 clipDownloadFailed, fallback, catchTrace, createdDirs, lastPS,
                 completedSetBy>>
  /\ UNCHANGED auxVars

\* Step 2: updateVideoStatus(videoId, "pending"), whatever the status read.
MarkPending ==
  /\ pc = "markPending"
  /\ \E acc \in BOOLEAN : UpdateVideoStatus("pending", NoURL, acc)
  /\ pc' = "fetchSegments"
  /\ UNCHANGED <<storyId, nSegs, sortedIndex, sStatus, sURL, fsVars,
                 runs, segments, idx, processedSegments, tempDirectories,
                 hasFailedSegments, localVideoFiles, dlIdx, result, scheduledCleanups,
                 handlerVars, okSegs, psFailed, mergeCall, mergeOutcome, uploadOutcome,
                 clipDownloadFailed, fallback, catchTrace, createdDirs, exitPath,
                 lastPS, completedSetBy>>
  /\ UNCHANGED auxVars

\* Step 3: read the segments in sortedIndex order and create the video workspace.
FetchSegments ==
  /\ pc = "fetchSegments"
  /\ \E out \in {"ok", "error", "throws"}, mk \in BOOLEAN, acc \in BOOLEAN :
       IF out = "throws" \/ (out = "ok" /\ nSegs > 0 /\ ~mk)
       THEN /\ pc' = "catch"
            /\ UNCHANGED <<vStatus, vURL, terminalWrites, result, exitPath, segments,
                           tempDirectories, dirs, createdDirs>>
       ELSE IF out = "error" \/ nSegs = 0
       THEN /\ UpdateVideoStatus("failed", NoURL, acc)
            /\ Return(NoURL, "noSegments")
            /\ UNCHANGED <<segments, tempDirectories, dirs, createdDirs>>
       ELSE /\ segments' = OrderedSegments
            /\ dirs' = dirs \cup {VideoDir}
            /\ tempDirectories' = <<VideoDir>>
            /\ createdDirs' = createdDirs \cup {VideoDir}
            /\ pc' = "loop"
            /\ UNCHANGED <<vStatus, vURL, terminalWrites, result, exitPath>>
  /\ UNCHANGED <<storyId, nSegs, sortedIndex, sStatus, sURL, files, storage,
                 runs, idx, processedSegments,
                 hasFailedSegments, localVideoFiles, dlIdx, scheduledCleanups,
                 handlerVars, okSegs, psFailed, mergeCall, mergeOutcome, uploadOutcome,
                 clipDownloadFailed, fallback, catchTrace, lastPS,
                 completedSetBy>>
  /\ UNCHANGED auxVars


\* A Segment update {status: "failed"}; accepted is FALSE when the store rejects it
\* (the result is not inspected) or the call throws inside the handler's own try.
SegFailedWrite(s, accepted) ==
  sStatus' = IF accepted THEN [sStatus EXCEPT ![s] = "failed"] ELSE sStatus

\* Variant of the loop that stops at the first failed segment (a break in the catch).
LoopAdvanceUntilFailure(i, failed, n) == IF failed THEN n + 1 ELSE i + 1

\* for (const segment of segments): the next iteration follows whatever happened in
\* this one (failed: hasFailedSegments after it; n: segments.length).
LoopAdvance(i, failed, n) == i + 1

\* Step 4, first half of one iteration of the segment loop: the segment workspace
\* and the processSegment call. mk: fs.mkdirSync succeeds; when it throws, the
\* iteration's catch marks the segment failed (upd2: that update is accepted).
LoopCall ==
  /\ pc = "loop"
  /\ idx <= Len(segments)
  /\ LET s == segments[idx] IN
     \E mk \in BOOLEAN, fault \in PSFaultsAt(s, dirs \cup {SegDir(s)}), upd2 \in BOOLEAN :
       IF ~mk
       THEN /\ hasFailedSegments' = TRUE
            /\ SegFailedWrite(s, upd2)
            /\ idx' = LoopAdvance(idx, TRUE, Len(segments))
            /\ UNCHANGED <<pc, fsVars, tempDirectories, createdDirs, lastPS>>
       ELSE LET d1 == dirs \cup {SegDir(s)} IN
            /\ tempDirectories' = Append(tempDirectories, SegDir(s))
            /\ createdDirs' = createdDirs \cup {SegDir(s)}
            /\ dirs' = PSDirs(s, fault, d1)
            /\ files' = PSFiles(s, fault, files)
            /\ storage' = PSStorage(s, fault, storage)
            /\ lastPS' = [called |-> TRUE, seg |-> s, reached |-> PSReached(s, fault),
                          ret |-> PSReturn(s, fault)]
            /\ pc' = "loopUpdate"
            /\ UNCHANGED <<hasFailedSegments, sStatus, idx>>
  /\ UNCHANGED <<storyId, nSegs, sortedIndex, vStatus, vURL, sURL,
                 runs, segments, processedSegments, localVideoFiles, dlIdx, result,
                 scheduledCleanups, handlerVars, terminalWrites, okSegs, psFailed,
                 mergeCall, mergeOutcome, uploadOutcome, clipDownloadFailed, fallback,
                 catchTrace, exitPath, completedSetBy>>
  /\ UNCHANGED auxVars

\* Step 4, second half: the Segment update that follows the value processSegment
\* returned. upd: outcome of the first update of the iteration; upd2: the update
\* inside the iteration's catch is accepted.
LoopUpdate ==
  /\ pc = "loopUpdate"
  /\ LET s == segments[idx]
         ret == lastPS.ret
     IN
     \E upd \in {"ok", "error", "throws"}, upd2 \in BOOLEAN :
       IF ret # NoURL /\ upd = "ok"
       THEN /\ sURL' = [sURL EXCEPT ![s] = ret]
            /\ sStatus' = [sStatus EXCEPT ![s] = "completed"]
            /\ completedSetBy' = completedSetBy \cup {s}
            /\ processedSegments' = Append(processedSegments,
                 [id |-> s, videoURL |-> ret, sortedIndex |-> sortedIndex[s]])
            /\ okSegs' = okSegs \cup {s}
            /\ UNCHANGED <<hasFailedSegments, psFailed>>
       ELSE IF ret # NoURL /\ upd = "error"
       THEN /\ hasFailedSegments' = TRUE
            /\ processedSegments' = Append(processedSegments,
                 [id |-> s, videoURL |-> ret, sortedIndex |-> sortedIndex[s]])
            /\ UNCHANGED <<sURL, sStatus, completedSetBy, okSegs, psFailed>>
       ELSE IF ret # NoURL
       THEN \* the update threw: the iteration's catch
            /\ hasFailedSegments' = TRUE
            /\ SegFailedWrite(s, upd2)
            /\ UNCHANGED <<sURL, completedSetBy, processedSegments, okSegs, psFailed>>
       ELSE \* processSegment returned null
            /\ hasFailedSegments' = TRUE
            /\ SegFailedWrite(s, upd = "ok" \/ (upd = "throws" /\ upd2))
            /\ psFailed' = TRUE
            /\ UNCHANGED <<sURL, completedSetBy, processedSegments, okSegs>>
  /\ idx' = LoopAdvance(idx, hasFailedSegments', Len(segments))
  /\ pc' = "loop"
  /\ lastPS' = NoPS
  /\ UNCHANGED <<storyId, nSegs, sortedIndex, vStatus, vURL, fsVars,
                 runs, segments, tempDirectories, localVideoFiles, dlIdx, result,
                 scheduledCleanups, handlerVars, terminalWrites, mergeCall, mergeOutcome,
                 uploadOutcome, clipDownloadFailed, fallback, catchTrace, createdDirs,
                 exitPath>>
  /\ UNCHANGED auxVars

\* Variant of the verdict that does not look at hasFailedSegments.
LoopVerdictIgnoringFailures(failed, ps) == IF Len(ps) = 0 THEN "noneProcessed" ELSE "merge"

\* What follows the segment loop: a failed segment fails the Video and stops; so does
\* an empty processedSegments; otherwise the merge is prepared.
LoopVerdict(failed, ps) ==
  IF failed THEN "segmentFailed"
  ELSE IF Len(ps) = 0 THEN "noneProcessed"
  ELSE "merge"

\* The loop is over: the finally block removes every directory recorded in
\* tempDirectories, and the verdict is acted on.
LoopExit ==
  /\ pc = "loop"
  /\ idx > Len(segments)
  /\ dirs' = CleanupTempDirs(dirs, tempDirectories)
  /\ files' = CleanupTempFilesOf(files, tempDirectories)
  /\ LET verdict == LoopVerdict(hasFailedSegments, processedSegments) IN
     \E acc \in BOOLEAN :
       IF verdict = "merge"
       THEN /\ pc' = "prepareMerge"
            /\ UNCHANGED <<vStatus, vURL, terminalWrites, result, exitPath>>
       ELSE UpdateVideoStatus("failed", NoURL, acc) /\ Return(NoURL, verdict)
  /\ UNCHANGED <<storyId, nSegs, sortedIndex, sStatus, sURL, storage,
                 runs, segments, idx, processedSegments, tempDirectories,
                 hasFailedSegments, localVideoFiles, dlIdx, scheduledCleanups,
                 handlerVars, okSegs, psFailed, mergeCall, mergeOutcome, uploadOutcome,
                 clipDownloadFailed, fallback, catchTrace, createdDirs, lastPS,
                 completedSetBy>>
  /\ UNCHANGED auxVars

\* Step 6: sort by sortedIndex and create the directory of the final video.
PrepareMerge ==
  /\ pc = "prepareMerge"
  /\ processedSegments' = SortProcessed(processedSegments)
  /\ \E mk \in BOOLEAN :
       IF mk
       THEN /\ dirs' = dirs \cup {VideoDir}
            /\ tempDirectories' = Append(tempDirectories, VideoDir)
            /\ createdDirs' = createdDirs \cup {VideoDir}
            /\ pc' = "download"
       ELSE \* mkdirSync threw inside the merge try block
            /\ pc' = "fallback"
            /\ UNCHANGED <<dirs, tempDirectories, createdDirs>>
  /\ localVideoFiles' = <<>>
  /\ dlIdx' = 1
  /\ UNCHANGED <<dbVars, files, storage, runs, segments, idx, hasFailedSegments,
                 result, scheduledCleanups, handlerVars, terminalWrites, okSegs, psFailed,
                 mergeCall, mergeOutcome, uploadOutcome, clipDownloadFailed, fallback,
                 catchTrace, exitPath, lastPS, completedSetBy>>
  /\ UNCHANGED auxVars

\* Step 6, one clip: download it into the directory of the final video.
DownloadClip ==
  /\ pc = "download"
  /\ dlIdx <= Len(processedSegments)
  /\ LET seg == processedSegments[dlIdx]
         dest == ClipFile(seg.id)
     IN
     IF seg.videoURL = NoURL
     THEN UNCHANGED <<dirs, files, localVideoFiles, clipDownloadFailed>>
     ELSE \E net \in BOOLEAN :
            /\ dirs' = DownloadDirs(dirs)
            /\ files' = DownloadFiles(net, dest, dirs, files)
            /\ IF DownloadOk(net, dest, dirs)
               THEN /\ localVideoFiles' = Append(localVideoFiles, dest)
                    /\ UNCHANGED clipDownloadFailed
               ELSE /\ clipDownloadFailed' = TRUE
                    /\ UNCHANGED localVideoFiles
  /\ dlIdx' = dlIdx + 1
  /\ UNCHANGED <<dbVars, storage, pc, runs, segments, idx, processedSegments,
                 tempDirectories, hasFailedSegments, result, scheduledCleanups,
                 handlerVars, terminalWrites, okSegs, psFailed, mergeCall, mergeOutcome,
                 uploadOutcome, fallback, catchTrace, createdDirs, exitPath, lastPS,
                 completedSetBy>>
  /\ UNCHANGED auxVars

\* Steps 7 and 8: no clip downloaded fails the Video; otherwise the merge is called
\* with the downloaded clips.
Merge ==
  /\ pc = "download"
  /\ dlIdx > Len(processedSegments)
  /\ IF Len(localVideoFiles) = 0
     THEN /\ \E acc \in BOOLEAN : UpdateVideoStatus("failed", NoURL, acc)
          /\ Return(NoURL, "noClips")
          /\ UNCHANGED <<files, mergeCall, mergeOutcome>>
     ELSE /\ mergeCall' = <<MergeGraph(localVideoFiles)>>
          /\ \E ok \in BOOLEAN :
               IF ok /\ MergeRunnable(localVideoFiles, dirs, files)
               THEN /\ files' = files \cup {FinalFile}
                    /\ mergeOutcome' = "ok"
                    /\ pc' = "upload"
               ELSE /\ mergeOutcome' = "threw"
                    /\ pc' = "fallback"
                    /\ UNCHANGED files
          /\ UNCHANGED <<vStatus, vURL, terminalWrites, result, exitPath>>
  /\ UNCHANGED <<storyId, nSegs, sortedIndex, sStatus, sURL, dirs, storage,
                 runs, segments, idx, processedSegments, tempDirectories,
                 hasFailedSegments, localVideoFiles, dlIdx, scheduledCleanups,
                 handlerVars, okSegs, psFailed, uploadOutcome, clipDownloadFailed, fallback,
                 catchTrace, createdDirs, lastPS, completedSetBy>>
  /\ UNCHANGED auxVars

\* Steps 9 and 10: upload the merged file, mark the Video completed, schedule the
\* cleanup without awaiting it, return the reference.
UploadFinal ==
  /\ pc = "upload"
  /\ \E up \in BOOLEAN, acc \in BOOLEAN :
       IF ~(up /\ FinalFile \in files)
       THEN /\ uploadOutcome' = "failed"
            /\ UpdateVideoStatus("failed", NoURL, acc)
            /\ Return(NoURL, "uploadFailed")
            /\ UNCHANGED <<storage, scheduledCleanups>>
       ELSE /\ uploadOutcome' = "ok"
            /\ storage' = storage \cup {FinalRef}
            /\ UpdateVideoStatus("completed", FinalRef, acc)
            /\ scheduledCleanups' = scheduledCleanups + 1
            /\ Return(FinalRef, "completed")
  /\ UNCHANGED <<storyId, nSegs, sortedIndex, sStatus, sURL, dirs, files,
                 runs, segments, idx, processedSegments, tempDirectories,
                 hasFailedSegments, localVideoFiles, dlIdx,
                 handlerVars, okSegs, psFailed, mergeCall, mergeOutcome,
                 clipDownloadFailed, fallback, catchTrace, createdDirs, lastPS,
                 completedSetBy>>
  /\ UNCHANGED auxVars


\* Variant of the fallback that takes the last processed segment's clip.
FallbackURLLast(ps) == ps[Len(ps)].videoURL

\* The reference the fallback stores: processedSegments[0].videoURL.
FallbackURL(ps) == ps[1].videoURL

\* The catch around the merge: fall back to the first processed segment's clip.
\* mk: mkdirSync of the fallback directory succeeds; net, up: the fallback download
\* and upload succeed. A throw inside goes through the inner catch (status failed
\* without a URL) and is thrown on to the top-level catch.
Fallback ==
  /\ pc = "fallback"
  /\ LET videoURL == FallbackURL(processedSegments) IN
     \E mk \in BOOLEAN, net \in BOOLEAN, up \in BOOLEAN, acc \in BOOLEAN :
       IF ~mk
       THEN /\ fallback' = "threw"
            /\ UpdateVideoStatus("failed", NoURL, acc)
            /\ pc' = "catch"
            /\ UNCHANGED <<fsVars, tempDirectories, createdDirs, scheduledCleanups,
                           result, exitPath>>
       ELSE LET d1 == dirs \cup {FallbackDir}
                downloaded == DownloadOk(net, FallbackFile, d1)
            IN
            /\ tempDirectories' = Append(tempDirectories, FallbackDir)
            /\ createdDirs' = createdDirs \cup {FallbackDir}
            /\ dirs' = DownloadDirs(d1)
            /\ files' = DownloadFiles(net, FallbackFile, d1, files)
            /\ storage' = IF downloaded /\ up THEN storage \cup {FallbackKey} ELSE storage
            /\ fallback' = IF ~downloaded THEN "downloadFailed"
                           ELSE IF up THEN "uploaded" ELSE "uploadFailed"
            /\ UpdateVideoStatus("failed", videoURL, acc)
            /\ scheduledCleanups' = scheduledCleanups + 1
            /\ Return(NoURL, "fallback")
  /\ UNCHANGED <<storyId, nSegs, sortedIndex, sStatus, sURL,
                 runs, segments, idx, processedSegments,
                 hasFailedSegments, localVideoFiles, dlIdx,
                 handlerVars, okSegs, psFailed, mergeCall, mergeOutcome, uploadOutcome,
                 clipDownloadFailed, catchTrace, lastPS, completedSetBy>>
  /\ UNCHANGED auxVars

\* Top-level catch, first step: await cleanupVideoFiles(videoId), never rejected.
CatchCleanup ==
  /\ pc = "catch"
  /\ \E lookup \in LookupOutcomes :
       /\ dirs' = RmDirs(dirs, CleanupVideoTargets(lookup, dirs))
       /\ files' = RmFiles(files, CleanupVideoTargets(lookup, dirs))
  /\ catchTrace' = Append(catchTrace, "cleanup")
  /\ pc' = "catchUpdate"
  /\ UNCHANGED <<dbVars, storage, runs, segments, idx, processedSegments,
                 tempDirectories, hasFailedSegments, localVideoFiles, dlIdx, result,
                 scheduledCleanups, handlerVars, terminalWrites, okSegs, psFailed, mergeCall,
                 mergeOutcome, uploadOutcome, clipDownloadFailed, fallback,
                 createdDirs, exitPath, lastPS, completedSetBy>>
  /\ UNCHANGED auxVars

\* Top-level catch, second step: updateVideoStatus(videoId, "failed"), return null.
CatchUpdate ==
  /\ pc = "catchUpdate"
  /\ \E acc \in BOOLEAN :
       /\ UpdateVideoStatus("failed", NoURL, acc)
       /\ Return(CatchReturn(acc), "caught")
  /\ catchTrace' = catchTrace \o <<"update", "return">>
  /\ UNCHANGED <<storyId, nSegs, sortedIndex, sStatus, sURL, fsVars,
                 runs, segments, idx, processedSegments, tempDirectories,
                 hasFailedSegments, localVideoFiles, dlIdx, scheduledCleanups,
                 handlerVars, okSegs, psFailed, mergeCall, mergeOutcome, uploadOutcome,
                 clipDownloadFailed, fallback, createdDirs, lastPS, completedSetBy>>
  /\ UNCHANGED auxVars

\* A cleanupVideoFiles(videoId) call that was scheduled and not awaited completes.
ScheduledCleanup ==
  /\ scheduledCleanups > 0
  /\ scheduledCleanups' = scheduledCleanups - 1
  /\ \E lookup \in LookupOutcomes :
       /\ dirs' = RmDirs(dirs, CleanupVideoTargets(lookup, dirs))
       /\ files' = RmFiles(files, CleanupVideoTargets(lookup, dirs))
  /\ UNCHANGED <<dbVars, storage, pc, runs, segments, idx, processedSegments,
                 tempDirectories, hasFailedSegments, localVideoFiles, dlIdx, result,
                 handlerVars, histVars>>
  /\ UNCHANGED auxVars

\* The standalone segment queue handler on a message carrying segmentId s, first
\* half: the pop and the processSegment call.
SegmentHandlerCall ==
  /\ pc = "idle" /\ segPc = "idle" /\ handler = "none"
  /\ runs + segMsgs < MaxMsgs
  /\ segMsgs' = segMsgs + 1
  /\ segPc' = "called"
  /\ handler' = "segment" /\ popped' = Validate("segment", "segmentId")
  /\ invoked' = TRUE /\ message' = "segmentId"
  /\ rpcs' = <<"pop">>
  /\ \E s \in SegIds : \E fault \in PSFaultsAt(s, dirs) :
       /\ dirs' = PSDirs(s, fault, dirs)
       /\ files' = PSFiles(s, fault, files)
       /\ storage' = PSStorage(s, fault, storage)
       /\ lastPS' = [called |-> TRUE, seg |-> s, reached |-> PSReached(s, fault),
                     ret |-> PSReturn(s, fault)]
  /\ UNCHANGED <<dbVars, runVars, processed, archived, response, body, terminalWrites, okSegs,
                 psFailed, mergeCall, mergeOutcome, uploadOutcome, clipDownloadFailed,
                 fallback, catchTrace, createdDirs, exitPath, completedSetBy>>
  /\ UNCHANGED auxVars

\* Second half: the Segment update {videoURL}, the archive and the response; 200 when
\* the update returned the row, 422 when processSegment returned null or the update
\* failed.
SegmentHandlerUpdate ==
  /\ segPc = "called"
  /\ segPc' = "idle"
  /\ LET s == lastPS.seg
         ret == lastPS.ret
     IN
     \E updOk \in BOOLEAN, a1 \in RpcOutcomes, a2 \in RpcOutcomes :
       LET ok == ret # NoURL /\ updOk
           out == DispatchOutcome(ok, a1, a2)
       IN
       /\ sURL' = IF ok THEN [sURL EXCEPT ![s] = ret] ELSE sURL
       /\ processed' = ok
       /\ response' = out.response
       /\ archived' = out.archived
       /\ rpcs' = out.rpcs
       /\ body' = IF out.response = 200 THEN ret ELSE NoURL
  /\ lastPS' = NoPS
  /\ UNCHANGED <<storyId, nSegs, sortedIndex, vStatus, vURL, sStatus, fsVars,
                 runVars, segMsgs, handler, popped, invoked, message, terminalWrites, okSegs,
                 psFailed, mergeCall, mergeOutcome, uploadOutcome, clipDownloadFailed,
                 fallback, catchTrace, createdDirs, exitPath, completedSetBy>>
  /\ UNCHANGED auxVars

\* A handler invocation that ends without calling the processor: the pop gave no
\* message, failed, or gave a message without the handler's identifier.
HandlerNoDispatch ==
  /\ pc = "idle" /\ segPc = "idle" /\ handler = "none"
  /\ runs + segMsgs < MaxMsgs
  /\ \E h \in {"video", "segment"}, delivery \in {"message", "empty", "error", "throws"},
        msg \in Messages, a \in RpcOutcomes :
       LET pop == Popped(h, delivery, msg)
           out == NoDispatchOutcome(pop, a)
       IN
       /\ pop # "valid"
       /\ message' = IF delivery = "message" THEN msg ELSE "none"
       /\ handler' = h
       /\ runs' = IF h = "video" THEN runs + 1 ELSE runs
       /\ segMsgs' = IF h = "segment" THEN segMsgs + 1 ELSE segMsgs
       /\ popped' = IF pop = "malformed" THEN "malformed" ELSE "none"
       /\ response' = out.response
       /\ archived' = out.archived
       /\ rpcs' = out.rpcs
  /\ UNCHANGED <<dbVars, fsVars, pc, segments, idx, processedSegments, tempDirectories,
                 hasFailedSegments, localVideoFiles, dlIdx, result, scheduledCleanups,
                 segPc, invoked, processed, body, histVars>>
  /\ UNCHANGED auxVars

\* The handler returns its response to the caller (the periodic driver or a manual
\* trigger); the invocation is over.
HandlerReturn ==
  /\ handler # "none" /\ response # 0
  /\ handler' = "none" /\ popped' = "none" /\ invoked' = FALSE /\ archived' = FALSE
  /\ processed' = FALSE
  /\ rpcs' = <<>> /\ response' = 0 /\ body' = NoURL /\ message' = "none"
  /\ UNCHANGED <<dbVars, fsVars, runVars, segPc, segMsgs, histVars>>
  /\ UNCHANGED auxVars

Next ==
  \/ StartRun
  \/ FinishRun
  \/ FetchVideo
  \/ MarkPending
  \/ FetchSegments
  \/ LoopCall
  \/ LoopUpdate
  \/ LoopExit
  \/ PrepareMerge
  \/ DownloadClip
  \/ Merge
  \/ UploadFinal
  \/ Fallback
  \/ CatchCleanup
  \/ CatchUpdate
  \/ ScheduledCleanup
  \/ SegmentHandlerCall
  \/ SegmentHandlerUpdate
  \/ HandlerNoDispatch
  \/ HandlerReturn

Spec == Init /\ [][Next]_vars

\* The steps of the handler invocation in flight: every external call it awaits
\* returns or throws, and the continuation then runs.
InvocationStep ==
  \/ FinishRun
  \/ FetchVideo
  \/ MarkPending
  \/ FetchSegments
  \/ LoopCall
  \/ LoopUpdate
  \/ LoopExit
  \/ PrepareMerge
  \/ DownloadClip
  \/ Merge
  \/ UploadFinal
  \/ Fallback
  \/ CatchCleanup
  \/ CatchUpdate
  \/ SegmentHandlerUpdate

\* The specification under which an invocation in flight keeps taking steps.
FairSpec == Spec /\ WF_vars(InvocationStep)

-----------------------------------------------------------------------------
\* The unit specification: processSegment or mergeVideosWithTransition called once,
\* directly, with any row and any input list, after its caller has arranged the
\* file system.

\* The caller of a merge has made the video directory and put clips into it.
UnitPrepare ==
  /\ unit.fn = "none"
  /\ \E S \in SUBSET SegIds :
       /\ S # {}
       /\ dirs' = dirs \cup {VideoDir}
       /\ files' = files \cup {ClipFile(s) : s \in S}
  /\ UNCHANGED <<dbVars, storage, runVars, handlerVars, histVars, unit, progressVars, jobVars>>

\* Variant that records the outcome on the row, as the callers do.
PSSegmentRowRecorded(row, ret) ==
  IF ret # NoURL THEN [status |-> "completed", videoURL |-> ret]
  ELSE [status |-> "failed", videoURL |-> row.videoURL]

\* The Segment row after processSegment: its one store call is the select of
\* imageURL, audioURL and storyId; it has no update, on no path.
PSSegmentRow(row, ret) == row

\* processSegment(s) on a row with the given URLs.
UnitProcessSegment ==
  /\ unit.fn = "none"
  /\ \E s \in SegIds, image \in Urls, audio \in Urls :
     \E fault \in PSFaultsAt(s, dirs) \ {"invalidUrl"} :
       LET eff == PSEffectiveFault(image, audio, fault)
           row == PSSegmentRow([status |-> sStatus[s], videoURL |-> sURL[s]],
                               PSReturn(s, eff))
       IN
       /\ sStatus' = [sStatus EXCEPT ![s] = row.status]
       /\ sURL' = [sURL EXCEPT ![s] = row.videoURL]
       /\ dirs' = PSDirs(s, eff, dirs)
       /\ files' = PSFiles(s, eff, files)
       /\ storage' = PSStorage(s, eff, storage)
       /\ unit' = [fn |-> "processSegment", seg |-> s, image |-> image, audio |-> audio,
                   inputs |-> <<>>, calls |-> PSCalls(image, audio, fault),
                   ret |-> PSReturn(s, eff), threw |-> FALSE,
                   made |-> PSMade(s, image, audio, fault, dirs),
                   wrote |-> IF PSWorkspace(s, eff) /\ eff # "download"
                             THEN {"image.jpg", "audio.mp3"} ELSE {},
                   fault |-> eff]
  /\ UNCHANGED <<storyId, nSegs, sortedIndex, vStatus, vURL, runVars, handlerVars,
                 histVars, progressVars, jobVars>>

\* mergeVideosWithTransition(videoFiles, outputPath).
UnitMerge ==
  /\ unit.fn = "none"
  /\ \E videoFiles \in MergeInputs, engineOk \in BOOLEAN :
       /\ engineOk => ~MergeRejects(videoFiles) /\ MergeRunnable(videoFiles, dirs, files)
       /\ files' = IF engineOk THEN files \cup {FinalFile} ELSE files
       /\ unit' = [fn |-> "merge", seg |-> 0, image |-> MissingUrl, audio |-> MissingUrl,
                   inputs |-> videoFiles, calls |-> MergeCalls(videoFiles, engineOk),
                   ret |-> NoURL, threw |-> ~engineOk,
                   made |-> {},
                   wrote |-> IF engineOk THEN {"output"} ELSE {},
                   fault |-> IF engineOk THEN "none" ELSE "engine"]
  /\ UNCHANGED <<dbVars, dirs, storage, runVars, handlerVars, histVars, progressVars, jobVars>>

\* downloadFile(url, filePath) with filePath a clip path of the video directory.
UnitDownloadFile ==
  /\ unit.fn = "none"
  /\ \E u \in DFUrls, s \in SegIds, fault \in DFFaults, partial \in BOOLEAN :
       LET destDirExists == VideoDir \in dirs
           eff == DFEffectiveFault(u, fault, destDirExists)
           w == DFWrote(eff, partial, destDirExists)
       IN
       /\ dirs' = IF eff = "mkdir" THEN dirs ELSE DownloadDirs(dirs)
       /\ files' = IF w \cap {"destination", "destination:partial"} # {}
                   THEN files \cup {ClipFile(s)} ELSE files
       /\ unit' = [fn |-> "downloadFile", seg |-> s, image |-> u, audio |-> MissingUrl,
                   inputs |-> <<>>, calls |-> DFCalls(eff),
                   ret |-> DFReturn(eff), threw |-> eff # "none" /\ ~DFCatches(eff),
                   made |-> IF eff = "mkdir" THEN {} ELSE {DownloadsDir} \ dirs,
                   wrote |-> w, fault |-> eff]
  /\ UNCHANGED <<dbVars, storage, runVars, handlerVars, histVars, progressVars, jobVars>>

UnitNext ==
  \/ UnitPrepare
  \/ UnitProcessSegment
  \/ UnitMerge
  \/ UnitDownloadFile

UnitSpec == Init /\ [][UnitNext]_vars

-----------------------------------------------------------------------------
\* The normalizer specification: the render engine reports readings one at a time,
\* any short sequence of them or the example sequence of the specification.

LogProgress ==
  /\ \E percent \in Readings :
       /\ \/ Len(readings) < MaxReadings
          \/ IsPrefix(Append(readings, percent), SpecReadings)
       /\ LET r == LogProgressResult([highest |-> highestSeenPercentage,
                                      last |-> lastReportedPercent,
                                      zeros |-> consecutiveZeros,
                                      inNew |-> inNewProcess], percent)
          IN /\ highestSeenPercentage' = r.highest
             /\ lastReportedPercent' = r.last
             /\ consecutiveZeros' = r.zeros
             /\ inNewProcess' = r.inNew
             /\ emitted' = Append(emitted, r.out)
       /\ readings' = Append(readings, percent)
  /\ UNCHANGED <<dbVars, fsVars, runVars, handlerVars, histVars, unit, jobVars>>

ProgressNext == LogProgress

ProgressSpec == Init /\ [][ProgressNext]_vars

-----------------------------------------------------------------------------
\* The jobs specification: handler invocations started by a tick or by a manual
\* trigger while another is in flight, each at its render job.

\* An invocation popped a message and reached the first download of its job.
JobStart ==
  /\ \E k \in Slots, id \in SegmentJobs \cup {VideoJob}, via \in {"tick", "manual"},
        n \in 1..MaxSegs :
       /\ jobs[k] = NoJob
       /\ id \in SegmentJobs => n = 1
       /\ jobs' = [jobs EXCEPT ![k] =
                     [id |-> id, via |-> via, step |-> "stage", file |-> 1, n |-> n,
                      writing |-> JobWrites(id, "stage", 1, n, now), hit |-> FALSE]]
  /\ UNCHANGED <<dbVars, fsVars, runVars, handlerVars, histVars, unit, progressVars, now, sweepVars, driverVars>>

\* The awaited call of a job returned and the job went on to its next step.
JobStep ==
  /\ \E k \in Slots :
       /\ jobs[k] # NoJob /\ jobs[k].step # "copyOutput"
       /\ LET j == jobs[k]
              nx == NextStep(j.id, j.step, j.file, j.n)
          IN jobs' = [jobs EXCEPT ![k] =
                        [j EXCEPT !.step = nx.step, !.file = nx.file,
                                  !.writing = JobWrites(j.id, nx.step, nx.file, j.n, now)]]
  /\ UNCHANGED <<dbVars, fsVars, runVars, handlerVars, histVars, unit, progressVars, now, sweepVars, driverVars>>

\* A job ended: its last step returned, or any step failed. cleanup: processVideo
\* left a cleanupVideoFiles(videoId) call behind (completion, fallback) or awaits one
\* (top-level catch); its early returns do not.
JobEnd ==
  /\ \E k \in Slots, cleanup \in BOOLEAN :
       /\ jobs[k] # NoJob
       /\ cleanup => jobs[k].id = VideoJob /\ scheduledCleanups < MaxMsgs
       /\ jobs' = [jobs EXCEPT ![k] = NoJob]
       /\ scheduledCleanups' = IF cleanup THEN scheduledCleanups + 1 ELSE scheduledCleanups
  /\ UNCHANGED <<dbVars, fsVars, pc, runs, segments, idx, processedSegments,
                 tempDirectories, hasFailedSegments, localVideoFiles, dlIdx, result,
                 handlerVars, histVars, unit, progressVars, now, sweepVars, driverVars>>

\* A cleanupVideoFiles(videoId) call runs while other invocations are in flight.
JobCleanup ==
  /\ scheduledCleanups > 0
  /\ scheduledCleanups' = scheduledCleanups - 1
  /\ \E lookup \in LookupOutcomes :
       LET targets == CleanupVideoTargets(lookup, ExistingJobDirs(jobs)) IN
       jobs' = [k \in Slots |->
                  IF jobs[k] # NoJob /\ JobDirs(jobs[k]) \cap targets # {}
                  THEN [jobs[k] EXCEPT !.hit = TRUE] ELSE jobs[k]]
  /\ UNCHANGED <<dbVars, fsVars, pc, runs, segments, idx, processedSegments,
                 tempDirectories, hasFailedSegments, localVideoFiles, dlIdx, result,
                 handlerVars, histVars, unit, progressVars, now, sweepVars, driverVars>>

\* A millisecond passed.
ClockTick ==
  /\ now < MaxClock
  /\ now' = now + 1
  /\ UNCHANGED <<dbVars, fsVars, runVars, handlerVars, histVars, unit, progressVars, jobs, sweepVars, driverVars>>

JobsNext ==
  \/ JobStart
  \/ JobStep
  \/ JobEnd
  \/ JobCleanup
  \/ ClockTick

JobsSpec == Init /\ [][JobsNext]_vars

-----------------------------------------------------------------------------
\* The sweep specification: jobs create entries in the temp area, leave them behind
\* or remove them, time passes, and the two periodic sweeps run at any moment.

\* A job in flight creates its directory, its staged file or its intermediate output.
TempWrite ==
  /\ \E e \in TempEntries :
       /\ temp[e] = "absent"
       /\ temp' = [temp EXCEPT ![e] = "inUse"]
  /\ UNCHANGED <<dbVars, fsVars, runVars, handlerVars, histVars, unit, progressVars,
                 jobs, now, lastSweep, driverVars>>

\* The job ended: it removed the entry (its finally block) or left it where it was
\* (the staged files and the intermediate outputs are never removed by the job).
TempRelease ==
  /\ \E e \in TempEntries, left \in BOOLEAN :
       /\ temp[e] = "inUse"
       /\ e # WorkspaceEntry => left
       /\ temp' = [temp EXCEPT ![e] = IF left THEN "young" ELSE "absent"]
  /\ UNCHANGED <<dbVars, fsVars, runVars, handlerVars, histVars, unit, progressVars,
                 jobs, now, lastSweep, driverVars>>

\* An entry nobody writes any more became older than MAX_AGE_MS.
TempAge ==
  /\ \E e \in TempEntries :
       /\ temp[e] = "young"
       /\ temp' = [temp EXCEPT ![e] = "old"]
  /\ UNCHANGED <<dbVars, fsVars, runVars, handlerVars, histVars, unit, progressVars,
                 jobs, now, lastSweep, driverVars>>

\* The temp area after a sweep: what it removed is gone.
AfterSweep(tmp, removed) ==
  [e \in TempEntries |-> IF e \in removed THEN "absent" ELSE tmp[e]]

\* cleanupOrphanedTempDirectories(), run at once and then every hour by the
\* schedulePeriodicCleanup of the cleanup service.
CleanupOrphanedTempDirectories ==
  /\ \E order \in SweepOrders(temp) : \E failAt \in 0..Len(order) :
       LET removed == SweepRemoved(order, failAt, OrphansRemoved(temp)) IN
       /\ lastSweep' = [by |-> "orphans", before |-> temp, removed |-> removed,
                        examined |-> SweepExamined(order, failAt),
                        failed |-> IF failAt = 0 THEN {} ELSE {order[failAt]},
                        threw |-> FALSE]
       /\ temp' = AfterSweep(temp, removed)
  /\ UNCHANGED <<dbVars, fsVars, runVars, handlerVars, histVars, unit, progressVars,
                 jobs, now, driverVars>>

\* The callback the server's schedulePeriodicCleanup() runs every 24 hours.
ServerPeriodicCleanup ==
  /\ lastSweep' = [by |-> "server", before |-> temp, removed |-> RootsRemoved(temp),
                   examined |-> Present(temp), failed |-> {}, threw |-> FALSE]
  /\ temp' = AfterSweep(temp, RootsRemoved(temp))
  /\ UNCHANGED <<dbVars, fsVars, runVars, handlerVars, histVars, unit, progressVars,
                 jobs, now, driverVars>>

SweepNext ==
  \/ TempWrite
  \/ TempRelease
  \/ TempAge
  \/ CleanupOrphanedTempDirectories
  \/ ServerPeriodicCleanup

SweepSpec == Init /\ [][SweepNext]_vars

-----------------------------------------------------------------------------
\* The driver specification: start and stop are called at any moment, an active
\* timer fires at any moment, manual triggers call the handlers directly.

OtherVars == <<dbVars, fsVars, runVars, handlerVars, histVars, unit, progressVars,
               jobs, now, sweepVars>>

\* startPeriodicProcessing().
StartPeriodicProcessing ==
  /\ \E id \in TimerIds \ activeTimers :
       /\ activeTimers' = ClearedOnStart(processingInterval, activeTimers) \cup {id}
       /\ processingInterval' = id
  /\ isProcessing' = TRUE
  /\ lastControl' = (IF isProcessing THEN "restart" ELSE "start")
  /\ controlToggle' = ~controlToggle
  /\ UNCHANGED <<ticks, inFlight, OtherVars>>

\* stopPeriodicProcessing().
StopPeriodicProcessing ==
  /\ activeTimers' = IF processingInterval # 0
                      THEN activeTimers \ {processingInterval} ELSE activeTimers
  /\ processingInterval' = 0
  /\ isProcessing' = FALSE
  /\ lastControl' = (IF isProcessing THEN "stop" ELSE "restop")
  /\ controlToggle' = ~controlToggle
  /\ UNCHANGED <<ticks, inFlight, OtherVars>>

\* An active timer fires: the callback begins its loop and calls the video handler
\* of slot 1. Nothing looks at the callbacks that are still in progress.
TickFire ==
  /\ activeTimers # {}
  /\ \E k \in TickSlots :
       /\ ticks[k].pc \in {"none", "returned"}
       /\ Invocation(k, "video") \notin inFlight
       /\ Invocation(k, "segment") \notin inFlight
       /\ ticks' = [ticks EXCEPT ![k] =
                      [pc |-> "awaitVideo", i |-> 1, trace |-> <<Call(1, "video")>>,
                       got |-> "pending", errors |-> FALSE]]
       /\ inFlight' = inFlight \cup {Invocation(k, "video")}
  /\ UNCHANGED <<isProcessing, processingInterval, activeTimers, lastControl,
                 controlToggle, OtherVars>>

\* GET /process-video and GET /process-segment call the handler directly.
ManualTrigger ==
  /\ \E h \in Handlers :
       /\ Invocation(0, h) \notin inFlight
       /\ inFlight' = inFlight \cup {Invocation(0, h)}
  /\ UNCHANGED <<isProcessing, processingInterval, activeTimers, ticks, lastControl,
                 controlToggle, OtherVars>>

\* A handler invocation returns to its caller.
PassReturn ==
  /\ \E p \in inFlight, out \in PassOutcomes :
       /\ inFlight' = inFlight \ {p}
       /\ ticks' = IF p.by # 0 /\ ticks[p.by].pc \in {"awaitVideo", "awaitSegment"}
                        /\ Awaited(ticks[p.by]) = p.handler
                   THEN [ticks EXCEPT ![p.by].got = out] ELSE ticks
  /\ UNCHANGED <<isProcessing, processingInterval, activeTimers, lastControl,
                 controlToggle, OtherVars>>

\* The callback goes on after its await: it calls the next handler or returns.
TickResume ==
  /\ \E k \in TickSlots :
       /\ ticks[k].pc \in {"awaitVideo", "awaitSegment"}
       /\ TickMayResume(ticks[k])
       /\ LET nx == TickAfter(ticks[k]) IN
          /\ ticks' = [ticks EXCEPT ![k] = nx]
          /\ inFlight' = IF nx.pc = "returned" THEN inFlight
                         ELSE inFlight \cup {Invocation(k, Awaited(nx))}
  /\ UNCHANGED <<isProcessing, processingInterval, activeTimers, lastControl,
                 controlToggle, OtherVars>>

DriverNext ==
  \/ StartPeriodicProcessing
  \/ StopPeriodicProcessing
  \/ TickFire
  \/ ManualTrigger
  \/ PassReturn
  \/ TickResume

DriverSpec == Init /\ [][DriverNext]_vars

-----------------------------------------------------------------------------
\* Properties.

\* The segment of okSegs that comes first in sortedIndex order.
FirstProcessed == CHOOSE s \in okSegs : \A x \in okSegs : sortedIndex[s] <= sortedIndex[x]

\* C1: a run over a Video with at least one Segment in which every processSegment
\* call returned a reference, every Segment update, every clip download, the merge
\* and the final upload succeeded returns the uploaded reference, leaves the Video
\* completed with that reference, and leaves every Segment completed with a videoURL.
C1_AllSucceededCompletes ==
  (/\ pc = "done"
   /\ Len(segments) >= 1
   /\ okSegs = 1..nSegs
   /\ ~clipDownloadFailed
   /\ mergeOutcome = "ok"
   /\ uploadOutcome = "ok")
  => /\ result = FinalRef
     /\ vStatus = "completed"
     /\ vURL = FinalRef
     /\ \A s \in 1..nSegs : sStatus[s] = "completed" /\ sURL[s] # NoURL

C3_StatusTransitions ==
  [][/\ vStatus' # vStatus =>
          \/ vStatus = "pending" /\ vStatus' \in {"completed", "failed"}
          \/ vStatus = "failed" /\ vStatus' = "pending" /\ pc = "markPending"
     /\ terminalWrites' <= 1]_vars

\* C4: in every state, a Segment's videoURL has been set by this system exactly when
\* its status has been set to completed by this system.
C4_UrlIffCompleted ==
  \A s \in SegIds : (sURL[s] # NoURL) <=> (s \in completedSetBy)

\* C5: whenever the merge has been called, its input clips are in strictly ascending
\* sortedIndex order of their segments, and the video stream and the audio stream of
\* the filter graph both list the clips in that order.
C5_MergeOrder ==
  mergeCall # <<>> =>
    LET g == mergeCall[1] IN
    /\ Len(g.inputs) >= 1
    /\ \A i \in 1..(Len(g.inputs) - 1) :
         sortedIndex[g.inputs[i].name.seg] < sortedIndex[g.inputs[i + 1].name.seg]
    /\ OutputClips(g, g.videoLabels) = g.inputs
    /\ OutputClips(g, g.audioLabels) = g.inputs

\* C5 witness: the merge has been called with one clip per segment of a story of
\* MaxSegs segments, whose sortedIndex order differs from their id order.
C5_Witness ==
  /\ mergeCall # <<>>
  /\ mergeCall[1].mode = "concat"
  /\ Len(mergeCall[1].inputs) = MaxSegs
  /\ mergeCall[1].inputs[1].name.seg > mergeCall[1].inputs[2].name.seg

\* C6: no file lies under a missing directory, and when a run has ended, every
\* directory it created under the processing root has been removed or is named by a
\* cleanupVideoFiles call that the run awaited or scheduled.
C6_WorkspacesReleased ==
  /\ \A f \in files : f.dir \in dirs
  /\ pc = "done" =>
       \A d \in createdDirs :
         \/ d \notin dirs
         \/ /\ exitPath \in {"completed", "fallback", "caught"}
            /\ d \in CleanupVideoScope

C9_FallbackFailureStated ==
  [][(/\ pc = "fallback" /\ mergeOutcome = "threw"
      /\ fallback' \in {"downloadFailed", "uploadFailed"})
     => (vStatus' = "failed" /\ vURL' = vURL /\ result' = Threw)]_vars

\* C9 amended: that step returns null; it issues status failed together with the
\* first processed segment's clip reference, so the Video row either takes both or
\* (update rejected) is left as it was; and a fallback that itself throws ends the
\* run in the top-level catch, which returns null.
C9_FallbackFailureAmended ==
  [][/\ (/\ pc = "fallback" /\ mergeOutcome = "threw"
         /\ fallback' \in {"downloadFailed", "uploadFailed"})
        => /\ result' = NoURL
           /\ pc' = "done"
           /\ \/ vStatus' = "failed" /\ vURL' = FallbackURL(processedSegments)
              \/ vStatus' = vStatus /\ vURL' = vURL
     /\ (pc' = "done" /\ fallback' = "threw") => result' = NoURL]_vars

\* C9 witness: the merge threw, the fallback download failed, and the run has ended
\* returning null with the Video failed and a videoURL written.
C9_Witness ==
  /\ pc = "done" /\ mergeOutcome = "threw"
  /\ fallback = "downloadFailed"
  /\ result = NoURL
  /\ vStatus = "failed"
  /\ vURL = ClipRef(FirstProcessed)

\* C10: processVideo never ends by throwing; a run that entered the top-level catch
\* did the cleanup, then the status update, then returned null, whether or not the
\* cleanup removed anything or the update was accepted.
C10_NeverThrows ==
  /\ result # Threw
  /\ pc = "catchUpdate" => catchTrace = <<"cleanup">>
  /\ exitPath = "caught" =>
       /\ pc = "done"
       /\ catchTrace = <<"cleanup", "update", "return">>
       /\ result = NoURL
  /\ pc = "done" => result \in {NoURL, FinalRef}

\* C10 witness: a run ended in the top-level catch with the status update rejected
\* and the video workspace still on disk.
C10_Witness ==
  /\ exitPath = "caught"
  /\ result = NoURL
  /\ terminalWrites = 0
  /\ vStatus = "pending"
  /\ VideoDir \in dirs

C14_HandlerTerminates ==
  /\ [](response \in {0, 200, 400, 422, 500})
  /\ [](result # Threw)
  /\ (handler # "none" /\ response = 0) ~> (handler # "none" /\ response # 0)

\* C14 witness: the video handler has returned 422 after processVideo returned null
\* and the message was handled by the catch block.
C14_Witness ==
  /\ handler = "video" /\ invoked /\ ~processed
  /\ response = 422
  /\ rpcs = <<"pop", "archive">>

\* The URL is missing, has no scheme, or has a scheme other than http/https.
BadUrl(u) == ~u.present \/ u.protocol \notin {"http:", "https:"}

\* C15: a processSegment call on a row whose imageURL or audioURL is missing, has no
\* scheme or has a scheme other than http/https returns null, makes no downloadFile
\* call, creates no directory (the workspace included), writes no file, and leaves
\* the file system and the object storage as they were: the row read is its only call.
C15_InvalidUrlRejectedEarly ==
  [][(unit'.fn = "processSegment" /\ (BadUrl(unit'.image) \/ BadUrl(unit'.audio)))
     => /\ unit'.ret = NoURL
        /\ ~\E i \in 1..Len(unit'.calls) :
              unit'.calls[i] \in {"downloadFile:image", "downloadFile:audio",
                                  "mkdirSync:workspace", "mkdirSync:downloads"}
        /\ unit'.calls = <<"select:Segment">>
        /\ unit'.made = {} /\ unit'.wrote = {}
        /\ dirs' = dirs /\ files' = files /\ storage' = storage]_vars

\* A call on a row whose imageURL parses but has the scheme ftp has returned null.
C15_Witness ==
  /\ unit.fn = "processSegment"
  /\ unit.image = [present |-> TRUE, protocol |-> "ftp:"]
  /\ unit.audio = [present |-> TRUE, protocol |-> "https:"]
  /\ unit.ret = NoURL
  /\ unit.calls = <<"select:Segment">>

\* C16: a merge called with an empty input list throws before any directory is made,
\* any log file opened or the render engine invoked, and writes no output file.
C16_EmptyMergeFailsFirst ==
  (unit.fn = "merge" /\ unit.inputs = <<>>)
  => /\ unit.threw
     /\ unit.calls = <<>>
     /\ unit.made = {} /\ unit.wrote = {}

\* A merge with an empty input list has thrown.
C16_Witness == unit.fn = "merge" /\ unit.inputs = <<>> /\ unit.threw

\* C17 as stated: in every processSegment call that returns a reference the audio is
\* transcribed after the downloads and before the render, and createVideo receives
\* the subtitle track.
C17_TranscribedBeforeRender ==
  (unit.fn = "processSegment" /\ unit.ret # NoURL)
  => /\ \E i, j, k \in 1..Len(unit.calls) :
          /\ i < j /\ j < k
          /\ unit.calls[i] = "downloadFile:audio"
          /\ unit.calls[j] = "transcribeAudio"
          /\ unit.calls[k] = "createVideo"
     /\ "subtitlesPath" \in Range(PSCreateVideoArgs)

\* C18: from the initial normalizer state, the readings 0,0,0,50,90,0,0,5,100 fed in
\* that order make logProgress emit each of the three leading zeros, then 50, then
\* 90, and 100 for the final reading.
C18_ExampleEmissions ==
  \A n \in 1..Len(SpecReadings) :
    readings = SubSeq(SpecReadings, 1, n)
    => /\ n \in {1, 2, 3} => emitted[n] = {0}
       /\ n = 4 => emitted[n] = {50}
       /\ n = 5 => emitted[n] = {90}
       /\ n = 9 => emitted[n] = {100}

\* The whole example sequence has been fed and its last reading logged.
C18_Witness == readings = SpecReadings /\ emitted[Len(SpecReadings)] = {100}

\* C19 as stated: in the example sequence the two zeros after 90 are a phase reset
\* (after them the high-water mark is 0 and the new-phase flag is set) and the
\* following reading 5 is logged as 5.
C19_ZerosAfterNinetyReset ==
  /\ readings = SubSeq(SpecReadings, 1, 7)
     => highestSeenPercentage = 0 /\ inNewProcess
  /\ readings = SubSeq(SpecReadings, 1, 8) => emitted[8] = {5}

\* C20 as stated: at no time do two jobs in flight with different identifiers write
\* to the same path under the temp root.
C20_NoSharedTempPath ==
  \A a, b \in Slots :
    (jobs[a] # NoJob /\ jobs[b] # NoJob /\ jobs[a].id # jobs[b].id)
    => jobs[a].writing \cap jobs[b].writing = {}

\* C21 as stated: a cleanup performed for one job never removes a directory or a
\* staged file that another job in flight is using.
C21_CleanupSparesOtherJobs ==
  \A k \in Slots : (jobs[k] # NoJob /\ jobs[k].id # VideoJob) => ~jobs[k].hit

\* The segments are in ascending sortedIndex order.
Ascending(segs) ==
  \A i, j \in 1..Len(segs) : i < j => sortedIndex[segs[i]] < sortedIndex[segs[j]]

\* An iteration of the segment loop begins in this step.
IterationBegins == pc = "loop" /\ idx <= Len(segments) /\ <<pc, idx>>' # <<pc, idx>>

\* The segment loop is left in this step.
LoopLeft == pc \in {"loop", "loopUpdate"} /\ pc' \notin {"loop", "loopUpdate"}

\* The update step of an iteration leads to the next iteration.
IterationEnds == (pc = "loopUpdate" /\ pc' # pc) => (pc' = "loop" /\ idx' = idx + 1)

\* The loop is left only after the last Segment.
LoopLeftAtEnd == LoopLeft => (pc = "loop" /\ idx = Len(segments) + 1)

\* The iteration invokes processSegment for its Segment.
IterationCalls ==
  /\ pc' = "loopUpdate" /\ idx' = idx
  /\ lastPS'.called /\ lastPS'.seg = segments[idx]

\* The iteration ends in its catch before the call: the Segment is recorded as failed.
IterationSkips ==
  /\ pc' = "loop" /\ idx' = idx + 1
  /\ hasFailedSegments' /\ lastPS' = lastPS /\ dirs' = dirs

\* C22 as stated: in a run that loaded a non-empty segment list every Segment, in
\* ascending sortedIndex order, has processSegment invoked for it exactly once,
\* whatever failed before; the loop is left only after the last Segment.
C22_EverySegmentProcessed ==
  [][/\ IterationBegins => (Ascending(segments) /\ IterationCalls)
     /\ IterationEnds
     /\ LoopLeftAtEnd]_vars

\* C22 amended: every Segment gets exactly one iteration, in ascending sortedIndex
\* order; an iteration invokes processSegment exactly once for its Segment, unless
\* mkdirSync of the segment workspace throws, and then the Segment is recorded as
\* failed without the call; no failure ends the loop before the last Segment.
C22_EverySegmentIterated ==
  [][/\ IterationBegins
          => (Ascending(segments)
              /\ ((IterationCalls /\ SegDir(segments[idx]) \in createdDirs')
                  \/ IterationSkips))
     /\ IterationEnds
     /\ LoopLeftAtEnd]_vars

\* processSegment has been called for the second of two Segments after the first
\* one failed.
C22_Witness ==
  /\ pc = "loopUpdate" /\ idx = 2 /\ Len(segments) = 2
  /\ hasFailedSegments /\ lastPS.called /\ lastPS.seg = segments[2]

\* C23 as stated, for a Segment update that answers with an error (the Segment is
\* then in processedSegments without being in okSegs): when processSegment returned a
\* reference and the update writing videoURL and completed failed, the Segment is
\* persisted as failed and the run has recorded a failed segment.
C23_FailedUpdatePersistsFailed ==
  [][(/\ pc = "loopUpdate" /\ pc' = "loop"
      /\ lastPS.ret # NoURL
      /\ processedSegments' # processedSegments
      /\ okSegs' = okSegs)
     => /\ hasFailedSegments'
        /\ sStatus'[segments[idx]] = "failed"]_vars

\* The per-segment directories among the given directories.
SegDirsOf(ds) == ds \cap {SegDir(s) : s \in SegIds}

C25_WellFormedDispatched ==
  (response # 0 /\ message \in {"videoId", "segmentId"})
  => /\ popped = "valid" /\ invoked
     /\ response # 400
     /\ handler = (IF message = "videoId" THEN "video" ELSE "segment")

\* C26 as stated: when processVideo returns a reference the Video row is persisted as
\* completed with that reference, and the video handler answers 200 only then.
C26_ReturnedReferencePersisted ==
  /\ (pc = "done" /\ result \notin {NoURL, Threw})
     => (vStatus = "completed" /\ vURL = result)
  /\ (handler = "video" /\ popped = "valid" /\ response = 200)
     => (vStatus = "completed" /\ vURL = body)

\* C27 as stated: a run that persists the Video as completed passed to the merge
\* exactly one clip for every Segment of the story; no clip download had failed.
C27_CompletedMeansAllClips ==
  (pc = "done" /\ exitPath = "completed" /\ vStatus = "completed")
  => /\ ~clipDownloadFailed
     /\ mergeCall # <<>>
     /\ Len(mergeCall[1].inputs) = nSegs
     /\ Range(mergeCall[1].inputs) = {ClipFile(s) : s \in 1..nSegs}

\* C28 as stated: a downloadFile call on a URL whose scheme is not http or https
\* returns false without calling fetch and without writing at the staging path or at
\* the destination path.
C28_NonHttpRejectedFirst ==
  (unit.fn = "downloadFile" /\ unit.image.protocol \notin {"http:", "https:"})
  => /\ unit.ret = False
     /\ "fetch" \notin Range(unit.calls)
     /\ unit.wrote = {}

DFWritesDestination(call) == call \in {"copyFileSync:destination", "writeFileSync:destination"}

\* C29: downloadFile never throws and returns false whenever a step of it failed
\* (directory, request, status, body, staging write, copy); the destination path is
\* written by no call other than the copy of the staging file, the copy comes after
\* the staging write has returned, and a call that failed before the copy leaves
\* nothing at the destination.
C29_DownloadNeverThrows ==
  unit.fn = "downloadFile"
  => /\ ~unit.threw
     /\ unit.ret \in {True, False}
     /\ (unit.fault # "none") <=> (unit.ret = False)
     /\ \A i \in 1..Len(unit.calls) :
          DFWritesDestination(unit.calls[i])
          => /\ unit.calls[i] = "copyFileSync:destination"
             /\ \E j \in 1..(i - 1) : unit.calls[j] = "writeFileSync:staging"
     /\ (unit.wrote \cap {"destination", "destination:partial"} # {})
          => "staging" \in unit.wrote
     /\ (unit.fault \in {"mkdir", "scheme", "network", "non2xx", "body", "write"})
          => unit.wrote \cap {"destination", "destination:partial"} = {}

C29_Witness ==
  /\ unit.fn = "downloadFile"
  /\ unit.fault = "non2xx"
  /\ unit.ret = False
  /\ unit.wrote = {}

\* C30 as stated: every periodic sweep removes exactly the entries under the
\* processing root and the downloads root that are older than the age threshold: it
\* removes no younger entry (the entries of a job in flight among them) and it
\* removes every older entry, file or directory.
C30_SweepRemovesExactlyOld ==
  lastSweep.by # "none"
  => lastSweep.removed =
       {e \in TempEntries : OlderThanMaxAge(lastSweep.before[e])}

\* C31 as stated: an orphan sweep in which inspecting or removing one entry failed
\* still examined every entry of the processing root and of the downloads root, and
\* it did not throw to its caller.
C31_SweepSurvivesEntryFailure ==
  (lastSweep.by = "orphans" /\ lastSweep.failed # {})
  => /\ lastSweep.examined = Present(lastSweep.before)
     /\ ~lastSweep.threw

\* What one tick does when its slots run one after another: for each slot the video
\* pass is called and awaited, then the segment pass is called and awaited.
ExpectedTrace ==
  [j \in 1..(4 * WorkerCount) |->
     LET slot == ((j - 1) \div 4) + 1
         at == (j - 1) % 4
     IN CASE at = 0 -> Call(slot, "video")
          [] at = 1 -> Resume(slot, "video")
          [] at = 2 -> Call(slot, "segment")
          [] OTHER -> Resume(slot, "segment")]

PassesOf(k) == {p \in inFlight : p.by = k}

TimerState == <<isProcessing, processingInterval, activeTimers>>

OneTimerIffProcessing ==
  /\ Cardinality(activeTimers) <= 1
  /\ isProcessing <=> activeTimers # {}
  /\ activeTimers = (IF processingInterval = 0 THEN {} ELSE {processingInterval})

ControlCalled == controlToggle' # controlToggle

StartWhileStarted ==
  (ControlCalled /\ lastControl' = "restart")
  => /\ activeTimers \cap activeTimers' = {}
     /\ Cardinality(activeTimers') = 1

StopWhileStopped ==
  (ControlCalled /\ lastControl' = "restop") => TimerState' = TimerState

\* C33: after every start and stop at most one interval timer is active and
\* isProcessing is true exactly when one is; a start while started leaves the
\* previous timer cleared and one new timer active; a stop while stopped changes
\* neither the flag, the handle nor the timers.
C33_StartStopIdempotent ==
  [][OneTimerIffProcessing' /\ StartWhileStarted /\ StopWhileStopped]_vars

C33_Witness ==
  /\ lastControl = "restart"
  /\ isProcessing
  /\ Cardinality(activeTimers) = 1

\* C34 as stated: at any time at most one queue-handler invocation is in flight,
\* whether a tick or a manual trigger started it.
C34_OneInvocationInFlight == Cardinality(inFlight) <= 1

\* C34 amended: at any time at most one invocation started by the same tick is in
\* flight; invocations of different ticks and of manual triggers may overlap.
C34_OneInvocationPerTick ==
  \A k \in TickSlots : Cardinality(PassesOf(k)) <= 1

C34_Witness ==
  /\ \A k \in TickSlots : Cardinality(PassesOf(k)) = 1
  /\ PassesOf(0) # {}

\* C35 as stated: while the driver is stopped no tick calls a handler: a tick that
\* was in progress when stopPeriodicProcessing returned starts no further pass.
C35_NoPassAfterStop ==
  [][(~isProcessing /\ ~isProcessing')
     => \A p \in inFlight' \ inFlight : p.by = 0]_vars

\* The value logged last before call n, 0 (the initial lastReportedPercent) if none.
RECURSIVE LastEmittedBefore(_)
LastEmittedBefore(n) ==
  IF n <= 1 THEN 0
  ELSE IF emitted[n - 1] # {} THEN CHOOSE v \in emitted[n - 1] : TRUE
  ELSE LastEmittedBefore(n - 1)

\* C36: whatever the readings, every value logProgress emits lies in 0..100 and
\* either is 0 or 100 or differs by at least 2 from the value emitted last before it.
C36_EmitsSignificantChanges ==
  \A n \in 1..Len(emitted) :
    \A v \in emitted[n] :
      /\ v \in 0..100
      /\ v \in {0, 100} \/ Distance(v, LastEmittedBefore(n)) >= 2

\* A reading next to the last emitted value was fed and nothing was emitted for it,
\* and a reading above 100 was emitted as 100.
C36_Witness ==
  /\ Len(readings) = 3
  /\ readings[1] = 98 /\ emitted[1] = {98}
  /\ readings[2] = 99 /\ emitted[2] = {}
  /\ readings[3] = 120 /\ emitted[3] = {100}

\* One call of logProgress: the reading it was given after the clamp, and what it
\* emitted.
Called == Len(readings') = Len(readings) + 1
ReadingFed == ValidPercent(readings'[Len(readings')])
EmittedNow == emitted'[Len(emitted')]

\* The reading is more than 5 points below the high-water mark.
Drop == ReadingFed < highestSeenPercentage - 5

\* The call emitted nothing but the value emitted last, and nothing more than 5
\* points below the high-water mark.
DropSuppressed ==
  /\ Drop => EmittedNow \subseteq {lastReportedPercent}
  /\ \A v \in EmittedNow : v >= highestSeenPercentage - 5

\* C37 as stated: whatever the high-water mark, a call outside a new phase whose
\* reading is more than 5 points below the mark emits the last emitted value or
\* nothing, and no call outside a new phase emits a value more than 5 points below
\* the mark.
C37_DropBelowMarkSuppressed ==
  [][(Called /\ ~inNewProcess') => DropSuppressed]_vars

\* C37 amended: the same for a high-water mark above 10.
C37_DropBelowMarkAboveTenSuppressed ==
  [][(Called /\ ~inNewProcess' /\ highestSeenPercentage > 10) => DropSuppressed]_vars

\* After 100 the reading 5 was fed and 100 was emitted again.
C37_Witness ==
  /\ readings = <<100, 5>>
  /\ emitted = <<{100}, {100}>>
  /\ highestSeenPercentage = 100 /\ ~inNewProcess

\* Readings n, n+1, n+2 are a reading of 99 or more and two zeros.
ZerosAfterHigh(n) ==
  /\ n >= 1 /\ n + 2 <= Len(readings)
  /\ ValidPercent(readings[n]) >= 99
  /\ ValidPercent(readings[n + 1]) = 0
  /\ ValidPercent(readings[n + 2]) = 0

\* C38 as stated: when the last two readings are zeros that follow a reading of 99 or
\* more, emitted or not, the high-water mark is 0 and the new-phase flag is set; and
\* the reading 5 right after them is emitted as 5.
C38_ZerosAfterHighStartPhase ==
  /\ ZerosAfterHigh(Len(readings) - 2) => (highestSeenPercentage = 0 /\ inNewProcess)
  /\ (ZerosAfterHigh(Len(readings) - 3) /\ readings[Len(readings)] = 5)
       => emitted[Len(readings)] = {5}

\* let highestSeenPercentage = 0 ... let inNewProcess = false: the globals when the
\* module is loaded.
InitialGlobals == [highest |-> 0, last |-> 0, zeros |-> 0, inNew |-> FALSE]

\* What logProgress emits for the readings seq, call by call, from the globals st.
RECURSIVE EmissionsFrom(_, _)
EmissionsFrom(st, seq) ==
  IF seq = <<>> THEN <<>>
  ELSE LET r == LogProgressResult(st, Head(seq))
       IN <<r.out>> \o EmissionsFrom([highest |-> r.highest, last |-> r.last,
                                      zeros |-> r.zeros, inNew |-> r.inNew], Tail(seq))

\* C39 as stated: wherever one render ends and the next begins, what is emitted for
\* the readings of the later render is what the same readings give from the initial
\* globals, whatever the earlier render fed.
C39_EmissionsOfOwnReadingsOnly ==
  \A n \in 0..Len(readings) :
    SubSeq(emitted, n + 1, Len(emitted))
      = EmissionsFrom(InitialGlobals, SubSeq(readings, n + 1, Len(readings)))

\* C40: a processSegment call, whether it returns a reference or null, leaves status
\* and videoURL of every Segment row as they were, and its only store call is the
\* select.
C40_SegmentRowUntouched ==
  [][(unit.fn = "none" /\ unit'.fn = "processSegment")
     => /\ sStatus' = sStatus
        /\ sURL' = sURL
        /\ \A i \in 1..Len(unit'.calls) :
             unit'.calls[i] \notin {"update:Segment", "insert:Segment", "delete:Segment"}]_vars

\* A call that returned a reference and left the row pending without a videoURL.
C40_Witness ==
  /\ unit.fn = "processSegment"
  /\ unit.ret = ClipRef(unit.seg)
  /\ sStatus[unit.seg] = "pending"
  /\ sURL[unit.seg] = NoURL

====
